---- MODULE Spec2Model ----
(***************************************************************************)
(* Soft-delete identity lifecycle of drf-vue-spa: the users table with its *)
(* conditional unique constraint, UserService, the UserViewSet endpoints,  *)
(* the EmployeeIdBackend and the login endpoint with its lockout cache.    *)
(***************************************************************************)
EXTENDS Integers, Sequences, FiniteSets, TLC

\* ------------------------------------------------------------------ bounds
MaxId == 3
MaxDays == 1
MaxChangedFields == 1
MaxClock == 120
MaxAttempts == 11
MaxRows == 2
MaxFailures == 12

\* Seconds by which the clock of the lockout specification advances.
ClockStep == 30

\* ------------------------------------------------------- program constants
NULL == 0
HTTP_200_OK == 200
HTTP_201_CREATED == 201
HTTP_204_NO_CONTENT == 204
HTTP_400_BAD_REQUEST == 400
HTTP_401_UNAUTHORIZED == 401
HTTP_403_FORBIDDEN == 403
HTTP_404_NOT_FOUND == 404
HTTP_429_TOO_MANY_REQUESTS == 429
HTTP_500_INTERNAL_SERVER_ERROR == 500
MAX_LOGIN_ATTEMPTS == 10
LOCKOUT_DURATION == 60
ATTEMPTS_TIMEOUT == 3600

\* ------------------------------------------------------------ input values
EmployeeIds == {"9999", "1001"}
Usernames == {"n1"}
Passwords == {"test1234"}
NewUsernames == {"n2"}
NewPasswords == {"pw2"}
Ids == 1..MaxId
Days == 0..MaxDays

VARIABLES users, nextId, now, result, inflight, cache, clock, session, audit_log, failures

vars == <<users, nextId, now, result, inflight, cache, clock, session, audit_log, failures>>

\* The variables of the concurrent requests and of the login endpoint.
conc_vars == <<inflight>>

login_vars == <<cache, clock, session>>

\* The records the audit logger wrote for the request in progress.
audit_vars == <<audit_log>>

\* History: the failed logins the endpoint has counted for the identifier
\* under concurrent load since its counter was last cleared.
hist_vars == <<failures>>

\* ------------------------------------------------------------ users/models
\* AbstractBaseUser.set_password / check_password: the stored value is a
\* hash of the raw password, never the raw password itself.
make_password(raw) == <<"pbkdf2_sha256", raw>>

check_password(user, raw) == user.password = make_password(raw)

\* CustomUserManager.get_queryset: rows with deleted_at IS NULL.
objects(u) == {i \in DOMAIN u : u[i].deleted_at = NULL}

\* AllObjectsManager.get_queryset: every row.
all_objects(u) == DOMAIN u

\* Mutant: the table has no unique constraint on employee_id.
unique_constraint_missing(u) == TRUE

\* UniqueConstraint(fields=[employee_id], condition=Q(deleted_at__isnull=True)).
unique_active_employee_id(u) ==
    \A a \in objects(u) : \A b \in objects(u) :
        a # b => u[a].employee_id # u[b].employee_id

\* Mutant: the store accepts every write.
save_without_constraint(u, id, row) ==
    [users |-> [i \in (DOMAIN u) \cup {id} |-> IF i = id THEN row ELSE u[i]],
     exc |-> "none"]

\* Model.save(): the row is written; the store rejects the write with
\* IntegrityError when the constraint would be violated.
save(u, id, row) ==
    LET w == [i \in (DOMAIN u) \cup {id} |-> IF i = id THEN row ELSE u[i]]
    IN  IF unique_active_employee_id(w)
        THEN [users |-> w, exc |-> "none"]
        ELSE [users |-> u, exc |-> "IntegrityError"]

\* Mutant: the soft delete also withdraws the admin flag.
soft_delete_drops_admin(u, instance_id, instance, t) ==
    save(u, instance_id,
         [instance EXCEPT !.deleted_at = t, !.is_active = FALSE, !.is_admin = FALSE])

\* User.soft_delete
soft_delete(u, instance_id, instance, t) ==
    save(u, instance_id, [instance EXCEPT !.deleted_at = t, !.is_active = FALSE])

\* Mutant: the restore clears deleted_at and leaves is_active as it is.
restore_keeps_disabled(u, instance_id, instance) ==
    save(u, instance_id, [instance EXCEPT !.deleted_at = NULL])

\* User.restore
restore(u, instance_id, instance) ==
    save(u, instance_id, [instance EXCEPT !.deleted_at = NULL, !.is_active = TRUE])

\* Mutant: every created account is an admin.
create_user_as_admin(u, id, t, employee_id, username, password, is_admin) ==
    IF employee_id = ""
    THEN [users |-> u, exc |-> "ValueError"]
    ELSE save(u, id, [employee_id |-> employee_id,
                      username |-> username,
                      password |-> make_password(password),
                      is_admin |-> TRUE,
                      is_active |-> TRUE,
                      created_at |-> t,
                      deleted_at |-> NULL])

\* CustomUserManager.create_user
create_user(u, id, t, employee_id, username, password, is_admin) ==
    IF employee_id = ""
    THEN [users |-> u, exc |-> "ValueError"]
    ELSE save(u, id, [employee_id |-> employee_id,
                      username |-> username,
                      password |-> make_password(password),
                      is_admin |-> is_admin,
                      is_active |-> TRUE,
                      created_at |-> t,
                      deleted_at |-> NULL])

\* -------------------------------------------- users/services/user_service
\* Mutant: the query does not exclude the account being changed.
check_last_admin_no_exclude(u, user_id) ==
    \E i \in objects(u) : u[i].is_admin /\ u[i].is_active

\* UserService._check_last_admin: TRUE when the check passes, FALSE when it
\* raises LastAdminError.
check_last_admin(u, user_id) ==
    \E i \in objects(u) : u[i].is_admin /\ u[i].is_active /\ i # user_id

ActiveAdmins(u) == {i \in objects(u) : u[i].is_admin /\ u[i].is_active}

\* Mutant: an admin is deleted without the last-admin check.
delete_user_no_admin_check(u, instance_id, instance, request_user_id, t) ==
    IF request_user_id # NULL /\ instance_id = request_user_id
    THEN [users |-> u, exc |-> "CannotDeleteSelfError"]
    ELSE soft_delete(u, instance_id, instance, t)

\* UserService.delete_user
delete_user(u, instance_id, instance, request_user_id, t) ==
    IF request_user_id # NULL /\ instance_id = request_user_id
    THEN [users |-> u, exc |-> "CannotDeleteSelfError"]
    ELSE IF instance.is_admin /\ ~check_last_admin(u, instance_id)
    THEN [users |-> u, exc |-> "LastAdminError"]
    ELSE soft_delete(u, instance_id, instance, t)

\* The fields of validated_data an update may carry (UserUpdateSerializer).
UpdateFields == {"employee_id", "username", "password", "is_admin", "is_active"}

\* validated_data of an update: `fields` are the keys present; the value of
\* an absent key is never read.
ValidatedData ==
    {d \in [fields : {f \in SUBSET UpdateFields : Cardinality(f) <= MaxChangedFields},
            employee_id : EmployeeIds \cup {""},
            username : NewUsernames,
            password : NewPasswords \cup {""},
            is_admin : BOOLEAN,
            is_active : BOOLEAN] :
        /\ "employee_id" \in d.fields <=> d.employee_id # ""
        /\ "password" \notin d.fields => d.password = ""
        /\ "is_admin" \notin d.fields => d.is_admin = FALSE
        /\ "is_active" \notin d.fields => d.is_active = FALSE}

\* validated_data.get(key, default)
get(d, key, default) == IF key \in d.fields THEN d[key] ELSE default

\* The loop of update_user: setattr for every key but password, then
\* set_password when a non-empty password was given.
apply_changes(instance, d) ==
    [employee_id |-> get(d, "employee_id", instance.employee_id),
     username |-> get(d, "username", instance.username),
     password |-> IF "password" \in d.fields /\ d.password # ""
                  THEN make_password(d.password) ELSE instance.password,
     is_admin |-> get(d, "is_admin", instance.is_admin),
     is_active |-> get(d, "is_active", instance.is_active),
     created_at |-> instance.created_at,
     deleted_at |-> instance.deleted_at]

\* UserService.update_user: the check reads the instance the caller fetched;
\* save(update_fields=...) writes the changed columns only, the others keep
\* what the store holds.
update_user(u, instance_id, instance, d) ==
    IF instance.is_admin /\ ~check_last_admin(u, instance_id)
    THEN [users |-> u, exc |-> "LastAdminError"]
    ELSE save(u, instance_id, apply_changes(u[instance_id], d))

\* Mutant: the remaining admins are counted without excluding the targets.
bulk_delete_users_no_exclude(u, user_ids, t) ==
    LET admin_ids == {i \in objects(u) : i \in user_ids /\ u[i].is_admin /\ u[i].is_active}
        remaining_admins == \E i \in objects(u) : u[i].is_admin /\ u[i].is_active
        targets == objects(u) \cap user_ids
    IN  IF admin_ids # {} /\ ~remaining_admins
        THEN [users |-> u, exc |-> "LastAdminError", count |-> 0]
        ELSE [users |-> [i \in DOMAIN u |->
                            IF i \in targets
                            THEN [u[i] EXCEPT !.deleted_at = t, !.is_active = FALSE]
                            ELSE u[i]],
              exc |-> "none", count |-> Cardinality(targets)]

\* Mutant: the UPDATE goes through User.all_objects, soft-deleted rows
\* included.
bulk_delete_users_all_objects(u, user_ids, t) ==
    LET admin_ids == {i \in objects(u) : i \in user_ids /\ u[i].is_admin /\ u[i].is_active}
        remaining_admins == \E i \in objects(u) :
            u[i].is_admin /\ u[i].is_active /\ i \notin user_ids
        targets == all_objects(u) \cap user_ids
    IN  IF admin_ids # {} /\ ~remaining_admins
        THEN [users |-> u, exc |-> "LastAdminError", count |-> 0]
        ELSE [users |-> [i \in DOMAIN u |->
                            IF i \in targets
                            THEN [u[i] EXCEPT !.deleted_at = t, !.is_active = FALSE]
                            ELSE u[i]],
              exc |-> "none", count |-> Cardinality(targets)]

\* UserService.bulk_delete_users
bulk_delete_users(u, user_ids, t) ==
    LET admin_ids == {i \in objects(u) : i \in user_ids /\ u[i].is_admin /\ u[i].is_active}
        remaining_admins == \E i \in objects(u) :
            u[i].is_admin /\ u[i].is_active /\ i \notin user_ids
        targets == objects(u) \cap user_ids
    IN  IF admin_ids # {} /\ ~remaining_admins
        THEN [users |-> u, exc |-> "LastAdminError", count |-> 0]
        ELSE [users |-> [i \in DOMAIN u |->
                            IF i \in targets
                            THEN [u[i] EXCEPT !.deleted_at = t, !.is_active = FALSE]
                            ELSE u[i]],
              exc |-> "none", count |-> Cardinality(targets)]

\* Mutant: the row is looked up without the deleted_at filter.
restore_user_any_row(u, user_id) ==
    IF user_id \in all_objects(u)
    THEN restore(u, user_id, u[user_id])
    ELSE [users |-> u, exc |-> "UserNotFoundError"]

\* UserService.restore_user
restore_user(u, user_id) ==
    IF user_id \in all_objects(u) /\ u[user_id].deleted_at # NULL
    THEN restore(u, user_id, u[user_id])
    ELSE [users |-> u, exc |-> "UserNotFoundError"]

\* Mutant: the UPDATE of the bulk restore is not checked by the store.
bulk_restore_users_unchecked(u, user_ids) ==
    LET targets == {i \in all_objects(u) : i \in user_ids /\ u[i].deleted_at # NULL}
    IN  [users |-> [i \in DOMAIN u |->
                       IF i \in targets
                       THEN [u[i] EXCEPT !.deleted_at = NULL, !.is_active = TRUE]
                       ELSE u[i]],
         exc |-> "none", count |-> Cardinality(targets)]

\* UserService.bulk_restore_users: one UPDATE statement, rejected as a whole
\* by the store when a restored row breaks the constraint.
bulk_restore_users(u, user_ids) ==
    LET targets == {i \in all_objects(u) : i \in user_ids /\ u[i].deleted_at # NULL}
        w == [i \in DOMAIN u |->
                 IF i \in targets
                 THEN [u[i] EXCEPT !.deleted_at = NULL, !.is_active = TRUE]
                 ELSE u[i]]
    IN  IF unique_active_employee_id(w)
        THEN [users |-> w, exc |-> "none", count |-> Cardinality(targets)]
        ELSE [users |-> u, exc |-> "IntegrityError", count |-> 0]

\* Mutant: the sweep ignores the retention threshold.
permanent_delete_all_deleted_users(u, days, t) ==
    LET old_deleted_users == {i \in all_objects(u) : u[i].deleted_at # NULL}
    IN  [users |-> [i \in (DOMAIN u) \ old_deleted_users |-> u[i]],
         exc |-> "none", count |-> Cardinality(old_deleted_users)]

\* UserService.permanent_delete_old_users
permanent_delete_old_users(u, days, t) ==
    LET threshold_date == t - days
        old_deleted_users == {i \in all_objects(u) :
            u[i].deleted_at # NULL /\ u[i].deleted_at <= threshold_date}
    IN  [users |-> [i \in (DOMAIN u) \ old_deleted_users |-> u[i]],
         exc |-> "none", count |-> Cardinality(old_deleted_users)]

\* --------------------------------------------------------- common/signals
\* The handlers connected to post_save and post_delete of User. The module
\* connects them only inside register_audit_signals(); UsersConfig.ready
\* imports the module and nothing calls that function.
receivers == {}

\* log_audit: the record a handler writes. get_current_request() is None
\* (AuditMiddleware, which stores the request, is not in MIDDLEWARE), so the
\* user of the record is "system".
log_audit(action, object_id) ==
    [action |-> action, user |-> "system", object_id |-> object_id]

\* Model.save() and QuerySet.delete() send post_save / post_delete for each
\* row to every connected handler.
send(handlers, action, object_ids) ==
    {log_audit(action, p[1]) : p \in object_ids \X handlers}

\* The audit records of one operation that takes the store from u to u2:
\* create, update, soft delete and restore save one instance; bulk delete
\* and bulk restore are QuerySet.update(), which sends no signal; the sweep
\* is QuerySet.delete().
audit_events(op, u, u2) ==
    LET saved == {i \in DOMAIN u2 : i \notin DOMAIN u \/ u2[i] # u[i]}
        deleted == (DOMAIN u) \ DOMAIN u2
    IN  IF op \in {"bulk_delete", "bulk_restore"}
        THEN {}
        ELSE IF op = "cleanup_deleted_users"
        THEN send(receivers, "DELETE", deleted)
        ELSE IF op = "create"
        THEN send(receivers, "CREATE", saved)
        ELSE send(receivers, "UPDATE", saved)

\* ------------------------------------------------------------ users/views
\* A PATCH/PUT body whose employee_id is blank; the serializer rejects it
\* whatever else it carries.
BlankEmployeeId ==
    [fields |-> {"employee_id"}, employee_id |-> "", username |-> "n2",
     password |-> "", is_admin |-> FALSE, is_active |-> FALSE]

\* The requests of the lifecycle specification change the identifier and the
\* two flags.
CoreFields == {"employee_id", "is_admin", "is_active"}

CoreData == {d \in ValidatedData : d.fields \subseteq CoreFields}

CoreRequestData == CoreData \cup {BlankEmployeeId}

Response(u, status, error_code, exc) ==
    [users |-> u, status |-> status, error_code |-> error_code, exc |-> exc]

\* Mutant: the permission classes stop at IsAuthenticated.
has_permission_authenticated(u, actor) ==
    /\ actor \in objects(u)
    /\ u[actor].is_active

\* SessionAuthentication + EmployeeIdBackend.get_user + IsAuthenticated +
\* IsAdminUser.has_permission: the requester's row is not soft-deleted, is
\* active and is an admin. The framework checks it before it calls the
\* handler method, and answers 403 without calling it otherwise.
has_permission(u, actor) ==
    /\ actor \in objects(u)
    /\ u[actor].is_active
    /\ u[actor].is_admin

\* Mutant: the duplicate check of the serializer also sees soft-deleted rows.
create_checks_all_rows(u, id, t, actor, employee_id, username, password, is_admin) ==
    IF employee_id = ""
    THEN Response(u, HTTP_400_BAD_REQUEST, "VALIDATION_ERROR", "none")
    ELSE IF \E i \in all_objects(u) : u[i].employee_id = employee_id
    THEN Response(u, HTTP_400_BAD_REQUEST, "EMPLOYEE_ID_EXISTS", "none")
    ELSE LET r == create_user(u, id, t, employee_id, username, password, is_admin)
         IN  IF r.exc = "none"
             THEN Response(r.users, HTTP_201_CREATED, "", "none")
             ELSE Response(u, HTTP_500_INTERNAL_SERVER_ERROR, "", r.exc)

\* UserViewSet.create
create(u, id, t, actor, employee_id, username, password, is_admin) ==
    IF employee_id = ""
    THEN Response(u, HTTP_400_BAD_REQUEST, "VALIDATION_ERROR", "none")
    ELSE IF \E i \in objects(u) : u[i].employee_id = employee_id
    THEN Response(u, HTTP_400_BAD_REQUEST, "EMPLOYEE_ID_EXISTS", "none")
    ELSE LET r == create_user(u, id, t, employee_id, username, password, is_admin)
         IN  IF r.exc = "none"
             THEN Response(r.users, HTTP_201_CREATED, "", "none")
             ELSE Response(u, HTTP_500_INTERNAL_SERVER_ERROR, "", r.exc)

\* UserViewSet.update between get_object and the service call: the deleted
\* check, the serializer's validation and the view's own last-admin check.
\* The error code of the 400 response, "" when the request goes on.
update_checks(u, pk, instance, d) ==
    LET other_admins == Cardinality(ActiveAdmins(u) \ {pk})
        last == instance.is_admin /\ instance.is_active /\ other_admins = 0
    IN  IF instance.deleted_at # NULL
        THEN "CANNOT_UPDATE_DELETED"
        ELSE IF "employee_id" \in d.fields /\ d.employee_id = ""
        THEN "VALIDATION_ERROR"
        ELSE IF "employee_id" \in d.fields
                /\ \E i \in objects(u) : i # pk /\ u[i].employee_id = d.employee_id
        THEN "EMPLOYEE_ID_EXISTS"
        ELSE IF last /\ "is_active" \in d.fields /\ ~d.is_active
        THEN "LAST_ADMIN_CANNOT_DEACTIVATE"
        ELSE IF last /\ "is_admin" \in d.fields /\ ~d.is_admin
        THEN "LAST_ADMIN_CANNOT_REMOVE"
        ELSE ""

\* UserViewSet.update
update(u, actor, pk, d) ==
    IF pk \notin objects(u)
    THEN Response(u, HTTP_404_NOT_FOUND, "NOT_FOUND", "none")
    ELSE IF update_checks(u, pk, u[pk], d) # ""
    THEN Response(u, HTTP_400_BAD_REQUEST, update_checks(u, pk, u[pk], d), "none")
    ELSE LET r == update_user(u, pk, u[pk], d)
         IN  IF r.exc = "none"
             THEN Response(r.users, HTTP_200_OK, "", "none")
             ELSE Response(u, HTTP_500_INTERNAL_SERVER_ERROR, "", r.exc)

\* Mutant: the endpoint does not compare the target with the requester.
destroy_no_self_check(u, actor, pk, t) ==
    IF pk \notin objects(u)
    THEN Response(u, HTTP_404_NOT_FOUND, "NOT_FOUND", "none")
    ELSE LET r == delete_user(u, pk, u[pk], NULL, t)
         IN  IF r.exc = "none"
             THEN Response(r.users, HTTP_204_NO_CONTENT, "", "none")
             ELSE Response(u, HTTP_500_INTERNAL_SERVER_ERROR, "", r.exc)

\* UserViewSet.destroy
destroy(u, actor, pk, t) ==
    IF pk \notin objects(u)
    THEN Response(u, HTTP_404_NOT_FOUND, "NOT_FOUND", "none")
    ELSE IF pk = actor
    THEN Response(u, HTTP_400_BAD_REQUEST, "CANNOT_DELETE_SELF", "none")
    ELSE LET r == delete_user(u, pk, u[pk], NULL, t)
         IN  IF r.exc = "none"
             THEN Response(r.users, HTTP_204_NO_CONTENT, "", "none")
             ELSE Response(u, HTTP_500_INTERNAL_SERVER_ERROR, "", r.exc)

\* UserViewSet.bulk_delete
bulk_delete(u, actor, user_ids, t) ==
    IF user_ids = {}
    THEN Response(u, HTTP_400_BAD_REQUEST, "VALIDATION_ERROR", "none")
    ELSE LET r == bulk_delete_users(u, user_ids, t)
         IN  IF r.exc = "none"
             THEN Response(r.users, HTTP_200_OK, "", "none")
             ELSE Response(u, HTTP_500_INTERNAL_SERVER_ERROR, "", r.exc)

\* UserViewSet.restore
restore_view(u, actor, pk) ==
    LET r == restore_user(u, pk)
         IN  IF r.exc = "none"
             THEN Response(r.users, HTTP_200_OK, "", "none")
             ELSE Response(u, HTTP_500_INTERNAL_SERVER_ERROR, "", r.exc)

\* UserViewSet.bulk_restore
bulk_restore(u, actor, user_ids) ==
    IF user_ids = {}
    THEN Response(u, HTTP_400_BAD_REQUEST, "VALIDATION_ERROR", "none")
    ELSE LET r == bulk_restore_users(u, user_ids)
         IN  IF r.exc = "none"
             THEN Response(r.users, HTTP_200_OK, "", "none")
             ELSE Response(u, HTTP_500_INTERNAL_SERVER_ERROR, "", r.exc)

\* ------------------------------------------------------------------ state
\* result: the request or service call being answered and its outcome; Idle
\* when no call is in progress. Requests are handled one at a time here; the
\* interleaving of concurrent requests is the subject of SpecConc.
Idle ==
    [op |-> "idle", actor |-> NULL, pk |-> NULL, ids |-> {},
     status |-> NULL, error_code |-> "", exc |-> "none"]

Result(op, actor, pk, ids, r) ==
    [op |-> op, actor |-> actor, pk |-> pk, ids |-> ids,
     status |-> r.status, error_code |-> r.error_code, exc |-> r.exc]

Called(op, actor, pk, ids, r) ==
    [op |-> op, actor |-> actor, pk |-> pk, ids |-> ids,
     status |-> NULL, error_code |-> "", exc |-> r.exc]

Init ==
    /\ users = (1 :> [employee_id |-> "9999", username |-> "admin",
                      password |-> make_password("test1234"),
                      is_admin |-> TRUE, is_active |-> TRUE,
                      created_at |-> 1, deleted_at |-> NULL])
    /\ nextId = 2
    /\ now = 2
    /\ result = Idle
    /\ inflight = <<>>
    /\ cache = <<>>
    /\ clock = 0
    /\ session = NULL
    /\ audit_log = {}
    /\ failures = 0

\* POST /api/users/
UserViewSet_create ==
    /\ result = Idle
    /\ \E actor \in Ids, e \in EmployeeIds \cup {""}, n \in Usernames,
       p \in Passwords, adm \in BOOLEAN :
        /\ has_permission(users, actor)
        /\ nextId <= MaxId
        /\ LET r == create(users, nextId, now, actor, e, n, p, adm)
           IN  /\ users' = r.users
               /\ nextId' = IF r.status = HTTP_201_CREATED THEN nextId + 1 ELSE nextId
               /\ result' = Result("create", actor, nextId, {}, r)
               /\ audit_log' = audit_events("create", users, r.users)
        /\ UNCHANGED now
    /\ UNCHANGED <<conc_vars, login_vars, hist_vars>>

\* PUT/PATCH /api/users/{pk}/
UserViewSet_update ==
    /\ result = Idle
    /\ \E actor \in Ids, pk \in Ids, d \in CoreRequestData :
        /\ has_permission(users, actor)
        /\ LET r == update(users, actor, pk, d)
           IN  /\ users' = r.users
               /\ result' = Result("update", actor, pk, {}, r)
               /\ audit_log' = audit_events("update", users, r.users)
        /\ UNCHANGED <<nextId, now>>
    /\ UNCHANGED <<conc_vars, login_vars, hist_vars>>

\* DELETE /api/users/{pk}/
UserViewSet_destroy ==
    /\ result = Idle
    /\ \E actor \in Ids, pk \in Ids :
        /\ has_permission(users, actor)
        /\ LET r == destroy(users, actor, pk, now)
           IN  /\ users' = r.users
               /\ result' = Result("destroy", actor, pk, {}, r)
               /\ audit_log' = audit_events("destroy", users, r.users)
        /\ UNCHANGED <<nextId, now>>
    /\ UNCHANGED <<conc_vars, login_vars, hist_vars>>

\* POST /api/users/bulk-delete/
UserViewSet_bulk_delete ==
    /\ result = Idle
    /\ \E actor \in Ids, user_ids \in SUBSET Ids :
        /\ has_permission(users, actor)
        /\ LET r == bulk_delete(users, actor, user_ids, now)
           IN  /\ users' = r.users
               /\ result' = Result("bulk_delete", actor, NULL, user_ids, r)
               /\ audit_log' = audit_events("bulk_delete", users, r.users)
        /\ UNCHANGED <<nextId, now>>
    /\ UNCHANGED <<conc_vars, login_vars, hist_vars>>

\* POST /api/users/{pk}/restore/
UserViewSet_restore ==
    /\ result = Idle
    /\ \E actor \in Ids, pk \in Ids :
        /\ has_permission(users, actor)
        /\ LET r == restore_view(users, actor, pk)
           IN  /\ users' = r.users
               /\ result' = Result("restore", actor, pk, {}, r)
               /\ audit_log' = audit_events("restore", users, r.users)
        /\ UNCHANGED <<nextId, now>>
    /\ UNCHANGED <<conc_vars, login_vars, hist_vars>>

\* POST /api/users/bulk-restore/
UserViewSet_bulk_restore ==
    /\ result = Idle
    /\ \E actor \in Ids, user_ids \in SUBSET Ids :
        /\ has_permission(users, actor)
        /\ LET r == bulk_restore(users, actor, user_ids)
           IN  /\ users' = r.users
               /\ result' = Result("bulk_restore", actor, NULL, user_ids, r)
               /\ audit_log' = audit_events("bulk_restore", users, r.users)
        /\ UNCHANGED <<nextId, now>>
    /\ UNCHANGED <<conc_vars, login_vars, hist_vars>>

\* APIView.check_permissions refuses the request before any handler of the
\* view set runs (permission_classes applies to every endpoint).
UserViewSet_permission_denied ==
    /\ result = Idle
    /\ \E actor \in Ids :
        /\ ~has_permission(users, actor)
        /\ result' = Result("permission_denied", actor, NULL, {},
                Response(users, HTTP_403_FORBIDDEN, "PERMISSION_DENIED", "none"))
        /\ UNCHANGED <<users, nextId, now>>
    /\ UNCHANGED <<conc_vars, login_vars, audit_vars, hist_vars>>

\* A direct call of UserService.delete_user(user_instance, request_user_id).
UserService_delete_user ==
    /\ result = Idle
    /\ \E pk \in DOMAIN users, request_user_id \in Ids \cup {NULL} :
        /\ LET r == delete_user(users, pk, users[pk], request_user_id, now)
           IN  /\ users' = r.users
               /\ result' = Called("delete_user", request_user_id, pk, {}, r)
               /\ audit_log' = audit_events("delete_user", users, r.users)
        /\ UNCHANGED <<nextId, now>>
    /\ UNCHANGED <<conc_vars, login_vars, hist_vars>>

\* A direct call of UserService.update_user(user_instance, validated_data).
UserService_update_user ==
    /\ result = Idle
    /\ \E pk \in DOMAIN users, d \in CoreData :
        /\ LET r == update_user(users, pk, users[pk], d)
           IN  /\ users' = r.users
               /\ result' = Called("update_user", NULL, pk, {}, r)
               /\ audit_log' = audit_events("update_user", users, r.users)
        /\ UNCHANGED <<nextId, now>>
    /\ UNCHANGED <<conc_vars, login_vars, hist_vars>>

\* manage.py cleanup_deleted_users --days=N
Command_handle ==
    /\ result = Idle
    /\ \E days \in Days :
        /\ LET r == permanent_delete_old_users(users, days, now)
           IN  /\ users' = r.users
               /\ result' = Called("cleanup_deleted_users", NULL, NULL, {}, r)
               /\ audit_log' = audit_events("cleanup_deleted_users", users, r.users)
        /\ UNCHANGED <<nextId, now>>
    /\ UNCHANGED <<conc_vars, login_vars, hist_vars>>

\* The response (or the call's return) is delivered.
Respond ==
    /\ result # Idle
    /\ result' = Idle
    /\ audit_log' = {}
    /\ UNCHANGED <<users, nextId, now>>
    /\ UNCHANGED <<conc_vars, login_vars, hist_vars>>

Next ==
    \/ Respond
    \/ UserViewSet_create
    \/ UserViewSet_update
    \/ UserViewSet_destroy
    \/ UserViewSet_bulk_delete
    \/ UserViewSet_restore
    \/ UserViewSet_bulk_restore
    \/ UserViewSet_permission_denied
    \/ UserService_delete_user
    \/ UserService_update_user
    \/ Command_handle

Spec == Init /\ [][Next]_vars

\* ---------------------------------------------------- concurrent requests
\* The server runs several workers (gunicorn --workers) on one store. A
\* request is a sequence of queries: the ones of the view, then the ones of
\* the service inside transaction.atomic. The code takes no row lock
\* (no select_for_update) and sets no isolation level, so every query reads
\* the rows committed when it runs; the write of a service is its last
\* statement and commits with it, checked by the store's unique constraint.
Workers == {1, 2}

\* The identifier the racing create and restore requests make active.
ConcEmployeeId == "1002"

ConcIds == 1..4

NoInstance ==
    [employee_id |-> "", username |-> "", password |-> <<>>,
     is_admin |-> FALSE, is_active |-> FALSE,
     created_at |-> NULL, deleted_at |-> NULL]

NoChange ==
    [fields |-> {}, employee_id |-> "", username |-> "n2",
     password |-> "", is_admin |-> FALSE, is_active |-> FALSE]

\* Bodies of the racing updates: a change of is_admin or of is_active.
ConcData == {d \in CoreData : d.fields \in {{"is_admin"}, {"is_active"}}}

NoRequest ==
    [op |-> "none", pc |-> "idle", actor |-> NULL, pk |-> NULL,
     d |-> NoChange, employee_id |-> "", instance |-> NoInstance,
     status |-> NULL, error_code |-> "", exc |-> "none"]

Finish(r, status, error_code, exc) ==
    [r EXCEPT !.pc = "done", !.status = status,
              !.error_code = error_code, !.exc = exc]

\* Two active admins, and two soft-deleted accounts that both held "1002":
\* the store after 1001 was created as admin, and 1002 was created and
\* deleted twice.
InitConc ==
    /\ users = [i \in ConcIds |->
                  [employee_id |-> IF i = 1 THEN "9999"
                                   ELSE IF i = 2 THEN "1001" ELSE ConcEmployeeId,
                   username |-> IF i = 1 THEN "admin" ELSE "n1",
                   password |-> make_password("test1234"),
                   is_admin |-> (i <= 2),
                   is_active |-> (i <= 2),
                   created_at |-> 1,
                   deleted_at |-> IF i <= 2 THEN NULL ELSE 1]]
    /\ nextId = 5
    /\ now = 1
    /\ result = Idle
    /\ inflight = [w \in Workers |-> NoRequest]
    /\ cache = <<>>
    /\ clock = 0
    /\ session = NULL
    /\ audit_log = {}
    /\ failures = 0

\* APIView.initial (check_permissions), then the handler up to its first
\* query after get_object: 403, 404 and the self-delete 400 are answered
\* here; update and destroy keep the instance get_object returned.
Conc_dispatch(w) ==
    /\ inflight[w].pc = "idle"
    /\ \E op \in {"create", "update", "destroy", "restore"},
          actor \in {1, 2}, pk \in ConcIds, d \in ConcData :
        LET r == [NoRequest EXCEPT
                     !.op = op, !.actor = actor,
                     !.pk = IF op = "create" THEN NULL ELSE pk,
                     !.d = IF op = "update" THEN d ELSE NoChange,
                     !.employee_id = IF op = "create" THEN ConcEmployeeId ELSE ""]
        IN  inflight' = [inflight EXCEPT ![w] =
                IF ~has_permission(users, actor)
                THEN Finish(r, HTTP_403_FORBIDDEN, "PERMISSION_DENIED", "none")
                ELSE IF op = "create" THEN [r EXCEPT !.pc = "validate"]
                ELSE IF op = "restore" THEN [r EXCEPT !.pc = "check"]
                ELSE IF pk \notin objects(users)
                THEN Finish(r, HTTP_404_NOT_FOUND, "NOT_FOUND", "none")
                ELSE IF op = "destroy" /\ pk = actor
                THEN Finish(r, HTTP_400_BAD_REQUEST, "CANNOT_DELETE_SELF", "none")
                ELSE [r EXCEPT !.instance = users[pk],
                               !.pc = IF op = "update" THEN "validate" ELSE "check"]]
    /\ UNCHANGED <<users, nextId, now, result, login_vars, audit_vars, hist_vars>>

\* serializer.is_valid and, for update, the view's last-admin check: the
\* queries made before the service is called.
Conc_validate(w) ==
    /\ inflight[w].pc = "validate"
    /\ LET r == inflight[w]
           e == IF r.op = "update"
                THEN update_checks(users, r.pk, r.instance, r.d)
                ELSE IF \E i \in objects(users) : users[i].employee_id = r.employee_id
                THEN "EMPLOYEE_ID_EXISTS"
                ELSE ""
       IN  inflight' = [inflight EXCEPT ![w] =
               IF e # ""
               THEN Finish(r, HTTP_400_BAD_REQUEST, e, "none")
               ELSE [r EXCEPT !.pc = IF r.op = "update" THEN "check" ELSE "write"]]
    /\ UNCHANGED <<users, nextId, now, result, login_vars, audit_vars, hist_vars>>

\* The query a service makes inside its transaction before it writes:
\* _check_last_admin in delete_user and update_user, all_objects.get in
\* restore_user. The exception it raises is not caught by the view.
Conc_check(w) ==
    /\ inflight[w].pc = "check"
    /\ LET r == inflight[w]
           exc == IF r.op = "destroy"
                  THEN delete_user(users, r.pk, r.instance, NULL, now).exc
                  ELSE IF r.op = "update"
                  THEN update_user(users, r.pk, r.instance, r.d).exc
                  ELSE restore_user(users, r.pk).exc
       IN  inflight' = [inflight EXCEPT ![w] =
               IF exc \in {"LastAdminError", "UserNotFoundError"}
               THEN Finish(r, HTTP_500_INTERNAL_SERVER_ERROR, "", exc)
               ELSE [r EXCEPT !.pc = "write",
                              !.instance = IF r.op = "restore"
                                           THEN users[r.pk] ELSE r.instance]]
    /\ UNCHANGED <<users, nextId, now, result, login_vars, audit_vars, hist_vars>>

\* The write of the service and the commit of its transaction: soft_delete
\* and restore save the instance as it was fetched, update_user saves the
\* changed columns, create_user inserts.
Conc_write(w) ==
    /\ inflight[w].pc = "write"
    /\ LET r == inflight[w]
           out == IF r.op = "destroy"
                  THEN soft_delete(users, r.pk, r.instance, now)
                  ELSE IF r.op = "update"
                  THEN save(users, r.pk, apply_changes(users[r.pk], r.d))
                  ELSE IF r.op = "restore"
                  THEN restore(users, r.pk, r.instance)
                  ELSE create_user(users, nextId, now, r.employee_id,
                                   "n1", "test1234", FALSE)
           ok == IF r.op = "destroy" THEN HTTP_204_NO_CONTENT
                 ELSE IF r.op = "create" THEN HTTP_201_CREATED
                 ELSE HTTP_200_OK
       IN  /\ users' = out.users
           /\ nextId' = IF r.op = "create" /\ out.exc = "none"
                        THEN nextId + 1 ELSE nextId
           /\ inflight' = [inflight EXCEPT ![w] =
                  IF out.exc = "none"
                  THEN Finish([r EXCEPT !.pk = IF r.op = "create" THEN nextId ELSE r.pk],
                              ok, "", "none")
                  ELSE Finish(r, HTTP_500_INTERNAL_SERVER_ERROR, "", out.exc)]
    /\ UNCHANGED <<now, result, login_vars, audit_vars, hist_vars>>

NextConc ==
    \/ \E w \in Workers : Conc_dispatch(w)
    \/ \E w \in Workers : Conc_validate(w)
    \/ \E w \in Workers : Conc_check(w)
    \/ \E w \in Workers : Conc_write(w)

SpecConc == InitConc /\ [][NextConc]_vars

\* ------------------------------------------------------ accounts/backends
\* Mutant: the rows are ordered oldest-created first.
RECURSIVE order_by_created_at_asc(_, _)
order_by_created_at_asc(u, S) ==
    IF S = {}
    THEN {<<>>}
    ELSE UNION {{<<i>> \o q : q \in order_by_created_at_asc(u, S \ {i})} :
                   i \in {j \in S : \A k \in S : u[j].created_at <= u[k].created_at}}

\* Meta.ordering = ["-created_at"] / order_by("-created_at"): the orders the
\* store may return the rows S in; rows created at the same time come in any
\* order.
RECURSIVE order_by_created_at_desc(_, _)
order_by_created_at_desc(u, S) ==
    IF S = {}
    THEN {<<>>}
    ELSE UNION {{<<i>> \o q : q \in order_by_created_at_desc(u, S \ {i})} :
                   i \in {j \in S : \A k \in S : u[k].created_at <= u[j].created_at}}

\* The rows a queryset's first() may return under Meta.ordering
\* (-created_at): the newest of S; rows created at the same time come in
\* an order the store chooses.
first(u, S) == {i \in S : \A j \in S : u[j].created_at <= u[i].created_at}

\* Mutant: like ModelBackend, a disabled or soft-deleted account is never
\* returned.
authenticate_active_only(u, employee_id, password) ==
    LET active == {i \in objects(u) : u[i].employee_id = employee_id}
        any == {i \in all_objects(u) : u[i].employee_id = employee_id}
        found == IF active # {} THEN first(u, active) ELSE first(u, any)
    IN  IF employee_id = "" \/ password = ""
        THEN {NULL}
        ELSE IF found = {}
        THEN {NULL}
        ELSE {IF /\ check_password(u[i], password)
                 /\ u[i].is_active
                 /\ u[i].deleted_at = NULL
              THEN i ELSE NULL : i \in found}

\* Mutant: the newest row of the identifier is taken, active or not.
authenticate_newest_row(u, employee_id, password) ==
    LET any == {i \in all_objects(u) : u[i].employee_id = employee_id}
        found == first(u, any)
    IN  IF employee_id = "" \/ password = ""
        THEN {NULL}
        ELSE IF found = {}
        THEN {NULL}
        ELSE {IF check_password(u[i], password) THEN i ELSE NULL : i \in found}

\* EmployeeIdBackend.authenticate: the users it may return, NULL for None.
authenticate(u, employee_id, password) ==
    LET active == {i \in objects(u) : u[i].employee_id = employee_id}
        any == {i \in all_objects(u) : u[i].employee_id = employee_id}
        found == IF active # {} THEN first(u, active) ELSE first(u, any)
    IN  IF employee_id = "" \/ password = ""
        THEN {NULL}
        ELSE IF found = {}
        THEN {NULL}
        ELSE {IF check_password(u[i], password) THEN i ELSE NULL : i \in found}

\* --------------------------------------------------------- accounts/views
\* django.core.cache: an entry is [value, expires]; an entry whose time has
\* come is not returned.
cache_get(c, key, default, t) ==
    IF key \in DOMAIN c /\ c[key].expires > t THEN c[key].value ELSE default

cache_set(c, key, value, timeout, t) ==
    [k \in (DOMAIN c) \cup {key} |->
        IF k = key THEN [value |-> value, expires |-> t + timeout] ELSE c[k]]

cache_delete(c, key) == [k \in (DOMAIN c) \ {key} |-> c[k]]

\* Mutant: one failure counter for all identifiers.
get_cache_key_shared(employee_id) == <<"login_attempts:", "">>

\* LoginAPIView._get_cache_key
get_cache_key(employee_id) == <<"login_attempts:", employee_id>>

\* LoginAPIView._get_lockout_key
get_lockout_key(employee_id) == <<"login_locked:", employee_id>>

\* LoginAPIView._increment_attempts
increment_attempts(c, employee_id, t) ==
    LET attempts == cache_get(c, get_cache_key(employee_id), 0, t) + 1
    IN  [cache |-> cache_set(c, get_cache_key(employee_id), attempts,
                             ATTEMPTS_TIMEOUT, t),
         attempts |-> attempts]

\* LoginAPIView._is_locked
is_locked(c, employee_id, t) ==
    cache_get(c, get_lockout_key(employee_id), FALSE, t)

\* LoginAPIView._lock_user
lock_user(c, employee_id, t) ==
    cache_set(c, get_lockout_key(employee_id), TRUE, LOCKOUT_DURATION, t)

\* Mutant: only the lockout flag is removed, the counter is forgotten.
reset_attempts_flag_only(c, employee_id) ==
    cache_delete(c, get_lockout_key(employee_id))

\* LoginAPIView._reset_attempts
reset_attempts(c, employee_id) ==
    cache_delete(cache_delete(c, get_cache_key(employee_id)),
                 get_lockout_key(employee_id))

LoginResponse(c, sess, status, error_code) ==
    [cache |-> c, session |-> sess, status |-> status, error_code |-> error_code]

\* Mutant: failures are counted for identifiers that have an account only.
post_counts_known_only(u, c, t, sess, employee_id, password, user) ==
    IF employee_id = "" \/ password = ""
    THEN LoginResponse(c, sess, HTTP_400_BAD_REQUEST, "")
    ELSE IF is_locked(c, employee_id, t)
    THEN LoginResponse(c, sess, HTTP_429_TOO_MANY_REQUESTS, "ACCOUNT_LOCKED")
    ELSE IF user # NULL
    THEN IF u[user].deleted_at # NULL
         THEN LoginResponse(increment_attempts(c, employee_id, t).cache, sess,
                            HTTP_401_UNAUTHORIZED, "ACCOUNT_DELETED")
         ELSE IF ~u[user].is_active
         THEN LoginResponse(increment_attempts(c, employee_id, t).cache, sess,
                            HTTP_401_UNAUTHORIZED, "ACCOUNT_INACTIVE")
         ELSE LoginResponse(reset_attempts(c, employee_id), user, HTTP_200_OK, "")
    ELSE IF ~\E i \in all_objects(u) : u[i].employee_id = employee_id
    THEN LoginResponse(c, sess, HTTP_401_UNAUTHORIZED, "INVALID_CREDENTIALS")
    ELSE IF increment_attempts(c, employee_id, t).attempts >= MAX_LOGIN_ATTEMPTS
    THEN LoginResponse(lock_user(increment_attempts(c, employee_id, t).cache,
                                 employee_id, t),
                       sess, HTTP_429_TOO_MANY_REQUESTS, "ACCOUNT_LOCKED")
    ELSE LoginResponse(increment_attempts(c, employee_id, t).cache, sess,
                       HTTP_401_UNAUTHORIZED, "INVALID_CREDENTIALS")

\* Mutant: the handler logs in whatever user authenticate returns.
post_trusts_authenticate(u, c, t, sess, employee_id, password, user) ==
    IF employee_id = "" \/ password = ""
    THEN LoginResponse(c, sess, HTTP_400_BAD_REQUEST, "")
    ELSE IF is_locked(c, employee_id, t)
    THEN LoginResponse(c, sess, HTTP_429_TOO_MANY_REQUESTS, "ACCOUNT_LOCKED")
    ELSE IF user # NULL
    THEN LoginResponse(reset_attempts(c, employee_id), user, HTTP_200_OK, "")
    ELSE IF increment_attempts(c, employee_id, t).attempts >= MAX_LOGIN_ATTEMPTS
    THEN LoginResponse(lock_user(increment_attempts(c, employee_id, t).cache,
                                 employee_id, t),
                       sess, HTTP_429_TOO_MANY_REQUESTS, "ACCOUNT_LOCKED")
    ELSE LoginResponse(increment_attempts(c, employee_id, t).cache, sess,
                       HTTP_401_UNAUTHORIZED, "INVALID_CREDENTIALS")

\* Mutant: the credentials are checked before the lock.
post_authenticates_first(u, c, t, sess, employee_id, password, user) ==
    IF employee_id = "" \/ password = ""
    THEN LoginResponse(c, sess, HTTP_400_BAD_REQUEST, "")
    ELSE IF user # NULL /\ u[user].deleted_at = NULL /\ u[user].is_active
    THEN LoginResponse(reset_attempts(c, employee_id), user, HTTP_200_OK, "")
    ELSE IF is_locked(c, employee_id, t)
    THEN LoginResponse(c, sess, HTTP_429_TOO_MANY_REQUESTS, "ACCOUNT_LOCKED")
    ELSE IF increment_attempts(c, employee_id, t).attempts >= MAX_LOGIN_ATTEMPTS
    THEN LoginResponse(lock_user(increment_attempts(c, employee_id, t).cache,
                                 employee_id, t),
                       sess, HTTP_429_TOO_MANY_REQUESTS, "ACCOUNT_LOCKED")
    ELSE LoginResponse(increment_attempts(c, employee_id, t).cache, sess,
                       HTTP_401_UNAUTHORIZED, "INVALID_CREDENTIALS")

\* Mutant: a request rejected for a lockout sets the lockout flag again.
post_renews_lock(u, c, t, sess, employee_id, password, user) ==
    IF employee_id = "" \/ password = ""
    THEN LoginResponse(c, sess, HTTP_400_BAD_REQUEST, "")
    ELSE IF is_locked(c, employee_id, t)
    THEN LoginResponse(lock_user(c, employee_id, t), sess,
                       HTTP_429_TOO_MANY_REQUESTS, "ACCOUNT_LOCKED")
    ELSE IF user # NULL
    THEN IF u[user].deleted_at # NULL
         THEN LoginResponse(increment_attempts(c, employee_id, t).cache, sess,
                            HTTP_401_UNAUTHORIZED, "ACCOUNT_DELETED")
         ELSE IF ~u[user].is_active
         THEN LoginResponse(increment_attempts(c, employee_id, t).cache, sess,
                            HTTP_401_UNAUTHORIZED, "ACCOUNT_INACTIVE")
         ELSE LoginResponse(reset_attempts(c, employee_id), user, HTTP_200_OK, "")
    ELSE LET inc == increment_attempts(c, employee_id, t)
         IN  IF inc.attempts >= MAX_LOGIN_ATTEMPTS
             THEN LoginResponse(lock_user(inc.cache, employee_id, t), sess,
                                HTTP_429_TOO_MANY_REQUESTS, "ACCOUNT_LOCKED")
             ELSE LoginResponse(inc.cache, sess,
                                HTTP_401_UNAUTHORIZED, "INVALID_CREDENTIALS")

\* LoginAPIView.post; user is what authenticate returns when the handler
\* gets to call it.
post(u, c, t, sess, employee_id, password, user) ==
    IF employee_id = "" \/ password = ""
    THEN LoginResponse(c, sess, HTTP_400_BAD_REQUEST, "")
    ELSE IF is_locked(c, employee_id, t)
    THEN LoginResponse(c, sess, HTTP_429_TOO_MANY_REQUESTS, "ACCOUNT_LOCKED")
    ELSE IF user # NULL
    THEN IF u[user].deleted_at # NULL
         THEN LoginResponse(increment_attempts(c, employee_id, t).cache, sess,
                            HTTP_401_UNAUTHORIZED, "ACCOUNT_DELETED")
         ELSE IF ~u[user].is_active
         THEN LoginResponse(increment_attempts(c, employee_id, t).cache, sess,
                            HTTP_401_UNAUTHORIZED, "ACCOUNT_INACTIVE")
         ELSE LoginResponse(reset_attempts(c, employee_id), user, HTTP_200_OK, "")
    ELSE LET inc == increment_attempts(c, employee_id, t)
         IN  IF inc.attempts >= MAX_LOGIN_ATTEMPTS
             THEN LoginResponse(lock_user(inc.cache, employee_id, t), sess,
                                HTTP_429_TOO_MANY_REQUESTS, "ACCOUNT_LOCKED")
             ELSE LoginResponse(inc.cache, sess,
                                HTTP_401_UNAUTHORIZED, "INVALID_CREDENTIALS")

\* The identifiers and passwords submitted to the login endpoint.
LoginIds == {"9999", "1001", ""}

LoginPasswords == {"test1234", "bad", ""}

\* The second account of the login store: soft-deleted, disabled, or never
\* created (the identifier is then unknown).
SecondAccounts == {"deleted", "inactive", "unknown"}

\* The admin 9999 and, beside it, the account 1001 in one of its states.
InitLogin ==
    /\ \E kind \in SecondAccounts :
        users = [i \in (IF kind = "unknown" THEN {1} ELSE {1, 2}) |->
                   [employee_id |-> IF i = 1 THEN "9999" ELSE "1001",
                    username |-> IF i = 1 THEN "admin" ELSE "n1",
                    password |-> make_password("test1234"),
                    is_admin |-> (i = 1),
                    is_active |-> (i = 1),
                    created_at |-> 1,
                    deleted_at |-> IF i = 2 /\ kind = "deleted" THEN 1 ELSE NULL]]
    /\ nextId = 3
    /\ now = 1
    /\ result = Idle
    /\ inflight = <<>>
    /\ cache = <<>>
    /\ clock = 0
    /\ session = NULL
    /\ audit_log = {}
    /\ failures = 0

\* POST /api/auth/login/
LoginAPIView_post ==
    /\ result = Idle
    /\ \E employee_id \in LoginIds, password \in LoginPasswords :
        /\ cache_get(cache, get_cache_key(employee_id), 0, clock) < MaxAttempts
        /\ \E user \in authenticate(users, employee_id, password) :
            LET r == post(users, cache, clock, session, employee_id, password, user)
            IN  /\ cache' = r.cache
                /\ session' = r.session
                /\ result' = [op |-> "login", employee_id |-> employee_id,
                              password |-> password, status |-> r.status,
                              error_code |-> r.error_code]
    /\ UNCHANGED <<users, nextId, now, clock, conc_vars, audit_vars, hist_vars>>

\* POST /api/auth/logout/ (IsAuthenticated)
LogoutAPIView_post ==
    /\ result = Idle
    /\ session \in objects(users)
    /\ session' = NULL
    /\ result' = [op |-> "logout", employee_id |-> "", password |-> "",
                  status |-> HTTP_200_OK, error_code |-> ""]
    /\ UNCHANGED <<users, nextId, now, cache, clock, conc_vars, audit_vars, hist_vars>>

\* time.time() advances by a lockout period; the entries whose time has
\* come are gone (no read returns them).
Clock_tick ==
    /\ clock + LOCKOUT_DURATION <= MaxClock
    /\ clock' = clock + LOCKOUT_DURATION
    /\ cache' = [k \in {x \in DOMAIN cache : cache[x].expires > clock'} |-> cache[k]]
    /\ UNCHANGED <<users, nextId, now, result, session, conc_vars, audit_vars, hist_vars>>

NextLogin ==
    \/ LoginAPIView_post
    \/ LogoutAPIView_post
    \/ Clock_tick
    \/ Respond

SpecLogin == InitLogin /\ [][NextLogin]_vars

\* time.time() advances by part of a lockout period, so that requests arrive
\* while a lockout is running.
Clock_advance ==
    /\ clock + ClockStep <= MaxClock
    /\ clock' = clock + ClockStep
    /\ cache' = [k \in {x \in DOMAIN cache : cache[x].expires > clock'} |-> cache[k]]
    /\ UNCHANGED <<users, nextId, now, result, session, conc_vars, audit_vars, hist_vars>>

NextLockout ==
    \/ LoginAPIView_post
    \/ LogoutAPIView_post
    \/ Clock_advance
    \/ Respond

SpecLockout == InitLogin /\ [][NextLockout]_vars

\* -------------------------------------------------- sessions and lifecycle
\* Mutant: the session's user is looked up among all rows.
get_user_all_rows(u, user_id) ==
    IF user_id \in all_objects(u) THEN user_id ELSE NULL

\* EmployeeIdBackend.get_user: User.objects.get(pk), None on DoesNotExist.
get_user(u, user_id) ==
    IF user_id \in objects(u) THEN user_id ELSE NULL

\* MeAPIView.get behind SessionAuthentication and IsAuthenticated: the user
\* get_user resolves, refused with 403 when there is none or it is disabled.
me(u, sess) ==
    LET user == get_user(u, sess)
    IN  IF user = NULL
        THEN [user |-> NULL, status |-> HTTP_403_FORBIDDEN]
        ELSE IF ~u[user].is_active
        THEN [user |-> user, status |-> HTTP_403_FORBIDDEN]
        ELSE [user |-> user, status |-> HTTP_200_OK]

\* The admin 9999 and the active account 1001; nobody is logged in.
InitSession ==
    /\ users = [i \in {1, 2} |->
                  [employee_id |-> IF i = 1 THEN "9999" ELSE "1001",
                   username |-> IF i = 1 THEN "admin" ELSE "n1",
                   password |-> make_password("test1234"),
                   is_admin |-> (i = 1),
                   is_active |-> TRUE,
                   created_at |-> 1,
                   deleted_at |-> NULL]]
    /\ nextId = 3
    /\ now = 1
    /\ result = Idle
    /\ inflight = <<>>
    /\ cache = <<>>
    /\ clock = 0
    /\ session = NULL
    /\ audit_log = {}
    /\ failures = 0

\* POST /api/auth/login/ by the browser whose session is modelled, with the
\* password its account was created with.
Session_login ==
    /\ result = Idle
    /\ \E employee_id \in EmployeeIds, password \in Passwords :
        /\ cache_get(cache, get_cache_key(employee_id), 0, clock) < MaxAttempts
        /\ \E user \in authenticate(users, employee_id, password) :
            LET r == post(users, cache, clock, session, employee_id, password, user)
            IN  /\ cache' = r.cache
                /\ session' = r.session
                /\ result' = [op |-> "login", employee_id |-> employee_id,
                              password |-> password, status |-> r.status,
                              error_code |-> r.error_code]
    /\ UNCHANGED <<users, nextId, now, clock, conc_vars, audit_vars, hist_vars>>

\* GET /api/auth/me/ with the session cookie.
MeAPIView_get ==
    /\ result = Idle
    /\ session # NULL
    /\ result' = [op |-> "me", user |-> me(users, session).user,
                  status |-> me(users, session).status, exc |-> "none"]
    /\ UNCHANGED <<users, nextId, now, conc_vars, login_vars, audit_vars, hist_vars>>

NextSession ==
    \/ Session_login
    \/ MeAPIView_get
    \/ LogoutAPIView_post
    \/ UserViewSet_destroy
    \/ UserViewSet_bulk_delete
    \/ UserViewSet_restore
    \/ UserViewSet_bulk_restore
    \/ UserService_delete_user
    \/ Respond

SpecSession == InitSession /\ [][NextSession]_vars

\* ------------------------------------------------ the authentication backend
\* Mutant: an exception of the store lookup leaves the backend.
EmployeeIdBackend_authenticate_uncaught(u, employee_id, password, raises) ==
    IF employee_id # "" /\ password # "" /\ raises
    THEN {[user |-> NULL, exc |-> "Exception"]}
    ELSE {[user |-> i, exc |-> "none"] : i \in authenticate(u, employee_id, password)}

\* EmployeeIdBackend.authenticate as Django calls it, with the store lookup
\* raising or not: the empty test comes first, and an exception raised inside
\* the try block is caught and gives None.
EmployeeIdBackend_authenticate(u, employee_id, password, raises) ==
    IF employee_id # "" /\ password # "" /\ raises
    THEN {[user |-> NULL, exc |-> "none"]}
    ELSE {[user |-> i, exc |-> "none"] : i \in authenticate(u, employee_id, password)}

\* The rows a store may hold when a login arrives: either identifier, either
\* password, enabled or disabled, soft-deleted or not, created at 1 or 2.
AuthRows ==
    [employee_id : EmployeeIds,
     username : Usernames,
     password : {make_password(p) : p \in {"test1234", "bad"}},
     is_admin : {FALSE},
     is_active : BOOLEAN,
     created_at : {1, 2},
     deleted_at : {NULL, 2}]

\* The stores of up to MaxRows rows that satisfy the unique constraint.
AuthStores ==
    {u \in UNION {[1..k -> AuthRows] : k \in 0..MaxRows} :
        unique_active_employee_id(u)}

InitAuth ==
    /\ users \in AuthStores
    /\ nextId = Len(users) + 1
    /\ now = 3
    /\ result = Idle
    /\ inflight = <<>>
    /\ cache = <<>>
    /\ clock = 0
    /\ session = NULL
    /\ audit_log = {}
    /\ failures = 0

\* django.contrib.auth.authenticate(request, employee_id=..., password=...)
Backend_authenticate ==
    /\ result = Idle
    /\ \E employee_id \in LoginIds, password \in LoginPasswords, raises \in BOOLEAN :
        \E r \in EmployeeIdBackend_authenticate(users, employee_id, password, raises) :
            result' = [op |-> "authenticate", employee_id |-> employee_id,
                       password |-> password, raises |-> raises,
                       user |-> r.user, exc |-> r.exc]
    /\ UNCHANGED <<users, nextId, now, conc_vars, login_vars, audit_vars, hist_vars>>

NextAuth ==
    \/ Backend_authenticate
    \/ Respond

SpecAuth == InitAuth /\ [][NextAuth]_vars

\* ------------------------------------------------ concurrent failed logins
\* Several workers answer POST /api/auth/login/ for one identifier with a
\* wrong password at the same time. _increment_attempts is a cache.get
\* followed by a cache.set, and another worker may run between the two.
ConcLoginId == "9999"

NoLogin == [pc |-> "idle", attempts |-> 0]

\* Mutant: the counter is advanced by two.
write_attempts_twice(c, employee_id, attempts, t) ==
    cache_set(c, get_cache_key(employee_id), attempts + 2, ATTEMPTS_TIMEOUT, t)

\* _increment_attempts, first half: attempts = cache.get(cache_key, 0)
read_attempts(c, employee_id, t) ==
    cache_get(c, get_cache_key(employee_id), 0, t)

\* _increment_attempts, second half: attempts += 1; cache.set(cache_key,
\* attempts, 3600)
write_attempts(c, employee_id, attempts, t) ==
    cache_set(c, get_cache_key(employee_id), attempts + 1, ATTEMPTS_TIMEOUT, t)

LoginAnswer(password, status, error_code) ==
    [op |-> "login", employee_id |-> ConcLoginId, password |-> password,
     status |-> status, error_code |-> error_code]

InitLoginConc ==
    /\ users = (1 :> [employee_id |-> "9999", username |-> "admin",
                      password |-> make_password("test1234"),
                      is_admin |-> TRUE, is_active |-> TRUE,
                      created_at |-> 1, deleted_at |-> NULL])
    /\ nextId = 2
    /\ now = 2
    /\ result = Idle
    /\ inflight = [w \in Workers |-> NoLogin]
    /\ cache = <<>>
    /\ clock = 0
    /\ session = NULL
    /\ audit_log = {}
    /\ failures = 0

\* post() up to authenticate(): the lock test, then the password check,
\* which fails.
Login_check(w) ==
    /\ inflight[w].pc = "idle"
    /\ failures + Cardinality({x \in Workers : inflight[x].pc # "idle"}) < MaxFailures
    /\ authenticate(users, ConcLoginId, "bad") = {NULL}
    /\ IF is_locked(cache, ConcLoginId, clock)
       THEN /\ result' = LoginAnswer("bad", HTTP_429_TOO_MANY_REQUESTS, "ACCOUNT_LOCKED")
            /\ UNCHANGED inflight
       ELSE /\ inflight' = [inflight EXCEPT ![w] = [pc |-> "read", attempts |-> 0]]
            /\ UNCHANGED result
    /\ UNCHANGED <<users, nextId, now, login_vars, audit_vars, hist_vars>>

Login_read(w) ==
    /\ inflight[w].pc = "read"
    /\ inflight' = [inflight EXCEPT ![w] =
                      [pc |-> "write",
                       attempts |-> read_attempts(cache, ConcLoginId, clock)]]
    /\ UNCHANGED <<users, nextId, now, result, login_vars, audit_vars, hist_vars>>

\* The write of the counter, and the answer 401 when the value written is
\* below the threshold.
Login_write(w) ==
    /\ inflight[w].pc = "write"
    /\ cache' = write_attempts(cache, ConcLoginId, inflight[w].attempts, clock)
    /\ failures' = failures + 1
    /\ IF inflight[w].attempts + 1 >= MAX_LOGIN_ATTEMPTS
       THEN /\ inflight' = [inflight EXCEPT ![w].pc = "lock"]
            /\ UNCHANGED result
       ELSE /\ inflight' = [inflight EXCEPT ![w] = NoLogin]
            /\ result' = LoginAnswer("bad", HTTP_401_UNAUTHORIZED, "INVALID_CREDENTIALS")
    /\ UNCHANGED <<users, nextId, now, clock, session, audit_vars>>

\* _lock_user and the answer 429.
Login_lock(w) ==
    /\ inflight[w].pc = "lock"
    /\ cache' = lock_user(cache, ConcLoginId, clock)
    /\ inflight' = [inflight EXCEPT ![w] = NoLogin]
    /\ result' = LoginAnswer("bad", HTTP_429_TOO_MANY_REQUESTS, "ACCOUNT_LOCKED")
    /\ UNCHANGED <<users, nextId, now, clock, session, audit_vars, hist_vars>>

\* A login with the right password while no failed login is in progress:
\* _reset_attempts clears the counter and the flag.
Login_success ==
    /\ \A w \in Workers : inflight[w].pc = "idle"
    /\ ~is_locked(cache, ConcLoginId, clock)
    /\ \E user \in authenticate(users, ConcLoginId, "test1234") :
        LET r == post(users, cache, clock, session, ConcLoginId, "test1234", user)
        IN  /\ cache' = r.cache
            /\ session' = r.session
            /\ result' = LoginAnswer("test1234", r.status, r.error_code)
    /\ failures' = 0
    /\ UNCHANGED <<users, nextId, now, clock, conc_vars, audit_vars>>

NextLoginConc ==
    \/ \E w \in Workers : Login_check(w)
    \/ \E w \in Workers : Login_read(w)
    \/ \E w \in Workers : Login_write(w)
    \/ \E w \in Workers : Login_lock(w)
    \/ Login_success
    \/ Clock_tick

SpecLoginConc == InitLoginConc /\ [][NextLoginConc]_vars

\* ------------------------------------------- service calls on a given store
\* Mutant: the dry run counts every soft-deleted account.
handle_dry_run_counts_all(u, days, dry_run, t) ==
    IF dry_run
    THEN [users |-> u, exc |-> "none",
          count |-> Cardinality({i \in all_objects(u) : u[i].deleted_at # NULL})]
    ELSE permanent_delete_old_users(u, days, t)

\* Command.handle of cleanup_deleted_users: with --dry-run the rows whose
\* deleted_at is at or before the threshold are counted (a NULL deleted_at
\* never satisfies deleted_at__lte), otherwise the service sweeps them.
handle(u, days, dry_run, t) ==
    IF dry_run
    THEN LET threshold_date == t - days
         IN  [users |-> u, exc |-> "none",
              count |-> Cardinality({i \in all_objects(u) :
                            u[i].deleted_at # NULL /\ u[i].deleted_at <= threshold_date})]
    ELSE permanent_delete_old_users(u, days, t)

\* The rows a store may hold when a service call arrives: either identifier,
\* admin or not, enabled or disabled, not soft-deleted or soft-deleted at 2
\* or at 3.
ServiceRows ==
    [employee_id : EmployeeIds,
     username : {"n1"},
     password : {make_password("test1234")},
     is_admin : BOOLEAN,
     is_active : BOOLEAN,
     created_at : {1},
     deleted_at : {NULL, 2, 3}]

\* The stores of up to MaxRows rows that satisfy the unique constraint.
ServiceStores ==
    {u \in UNION {[1..k -> ServiceRows] : k \in 0..MaxRows} :
        unique_active_employee_id(u)}

\* The ids a caller may pass: those of the rows and one that no row has.
ServiceIds == 1..(MaxRows + 1)

InitService ==
    /\ users \in ServiceStores
    /\ nextId = Len(users) + 1
    /\ now = 3
    /\ result = Idle
    /\ inflight = <<>>
    /\ cache = <<>>
    /\ clock = 0
    /\ session = NULL
    /\ audit_log = {}
    /\ failures = 0

\* UserService.delete_user(user_instance) on an account fetched from
\* User.objects; `before` is the store the call found.
Service_delete_user ==
    /\ result = Idle
    /\ \E pk \in objects(users) :
        LET r == delete_user(users, pk, users[pk], NULL, now)
        IN  /\ users' = r.users
            /\ result' = [op |-> "delete_user", pk |-> pk, before |-> users,
                          exc |-> r.exc]
    /\ UNCHANGED <<nextId, now, conc_vars, login_vars, audit_vars, hist_vars>>

\* UserService.restore_user(user_id) called right after the delete_user of
\* the same account succeeded.
Service_restore_user ==
    /\ result.op = "delete_user"
    /\ result.exc = "none"
    /\ LET r == restore_user(users, result.pk)
       IN  /\ users' = r.users
           /\ result' = [op |-> "restore_user", pk |-> result.pk,
                         before |-> result.before, exc |-> r.exc]
    /\ UNCHANGED <<nextId, now, conc_vars, login_vars, audit_vars, hist_vars>>

\* UserService.bulk_delete_users(user_ids)
Service_bulk_delete_users ==
    /\ result = Idle
    /\ \E user_ids \in SUBSET ServiceIds :
        LET r == bulk_delete_users(users, user_ids, now)
        IN  /\ users' = r.users
            /\ result' = [op |-> "bulk_delete_users", ids |-> user_ids,
                          before |-> users, count |-> r.count, exc |-> r.exc]
    /\ UNCHANGED <<nextId, now, conc_vars, login_vars, audit_vars, hist_vars>>

\* manage.py cleanup_deleted_users --days=N [--dry-run]
Cleanup_handle ==
    /\ result = Idle
    /\ \E days \in Days, dry_run \in BOOLEAN :
        LET r == handle(users, days, dry_run, now)
        IN  /\ users' = r.users
            /\ result' = [op |-> "cleanup_deleted_users", days |-> days,
                          dry_run |-> dry_run, before |-> users,
                          count |-> r.count, exc |-> r.exc]
    /\ UNCHANGED <<nextId, now, conc_vars, login_vars, audit_vars, hist_vars>>

NextService ==
    \/ Service_delete_user
    \/ Service_restore_user
    \/ Service_bulk_delete_users
    \/ Cleanup_handle
    \/ Respond

SpecService == InitService /\ [][NextService]_vars

\* ------------------------------------------------------------ properties
\* C1: in every reachable state no two distinct accounts whose deleted_at is
\* NULL have the same employee_id.
C1_Uniqueness ==
    \A a \in DOMAIN users : \A b \in DOMAIN users :
        (a # b /\ users[a].deleted_at = NULL /\ users[b].deleted_at = NULL)
            => users[a].employee_id # users[b].employee_id

\* A restore that would have duplicated an active identifier was refused by
\* the store: a soft-deleted and an active account share the identifier.
C1_Witness ==
    /\ result.op \in {"restore", "bulk_restore"}
    /\ result.exc = "IntegrityError"
    /\ \E a \in DOMAIN users : \E b \in DOMAIN users :
        /\ users[a].deleted_at # NULL
        /\ users[b].deleted_at = NULL
        /\ users[a].employee_id = users[b].employee_id

\* C2: starting with an active enabled admin, every reachable state has at
\* least one account with is_admin, is_active and deleted_at NULL.
C2_LastAdmin ==
    \E i \in DOMAIN users :
        users[i].is_admin /\ users[i].is_active /\ users[i].deleted_at = NULL

\* An operation on the only active admin was rejected by the last-admin check.
C2_Witness ==
    /\ result.op \in {"delete_user", "update_user", "bulk_delete", "update"}
    /\ \/ result.exc = "LastAdminError"
       \/ result.error_code \in {"LAST_ADMIN_CANNOT_DEACTIVATE", "LAST_ADMIN_CANNOT_REMOVE"}
    /\ Cardinality(ActiveAdmins(users)) = 1

\* C3: (a) delete_user of an admin by another user, when no other active
\* enabled admin exists, raises LastAdminError and changes nothing; (b) with
\* exactly the two active admins M1 and M2, M2 deleting M1 succeeds and
\* leaves M2 the only active admin; (c) a DELETE handled by the endpoint and
\* aimed at the only active admin is answered 400 and changes nothing.
C3_DeleteLastAdmin ==
    [][LET r == result' IN
       /\ (/\ r.op = "delete_user"
           /\ r.actor # r.pk
           /\ users[r.pk].is_admin
           /\ ActiveAdmins(users) \ {r.pk} = {})
          => (r.exc = "LastAdminError" /\ users' = users)
       /\ (/\ r.op \in {"delete_user", "destroy"}
           /\ r.actor # r.pk
           /\ ActiveAdmins(users) = {r.pk, r.actor})
          => /\ r.exc = "none"
             /\ r.status \in {NULL, HTTP_204_NO_CONTENT}
             /\ users'[r.pk].deleted_at # NULL
             /\ ActiveAdmins(users') = {r.actor}
       /\ (r.op = "destroy" /\ ActiveAdmins(users) = {r.pk})
          => (r.status = HTTP_400_BAD_REQUEST /\ users' = users)
      ]_vars

\* The only active admin was the target of a rejected delete and is still
\* active.
C3_Witness ==
    /\ result.op = "delete_user"
    /\ result.exc = "LastAdminError"
    /\ result.actor # result.pk
    /\ ActiveAdmins(users) = {result.pk}

\* The request of worker w committed a write.
Committed(w) ==
    /\ inflight[w].pc = "done"
    /\ inflight[w].exc = "none"
    /\ inflight[w].status \in {HTTP_200_OK, HTTP_201_CREATED, HTTP_204_NO_CONTENT}

\* The request of worker w removes admin a: it deletes, demotes or
\* deactivates that account.
Removes(w, a) ==
    /\ inflight[w].pk = a
    /\ \/ inflight[w].op = "destroy"
       \/ /\ inflight[w].op = "update"
          /\ \/ "is_admin" \in inflight[w].d.fields /\ ~inflight[w].d.is_admin
             \/ "is_active" \in inflight[w].d.fields /\ ~inflight[w].d.is_active

\* C4 (as claimed): with the two active admins 1 and 2, a request removing 1
\* and a concurrent request removing 2 never both succeed, and no
\* interleaving ends without an active admin.
C4_AtomicCheckThenWrite ==
    /\ ~(\E a \in Workers : \E b \in Workers :
            /\ a # b
            /\ Removes(a, 1) /\ Committed(a)
            /\ Removes(b, 2) /\ Committed(b))
    /\ ActiveAdmins(users) # {}

\* The request of worker w makes ConcEmployeeId active: a create, or the
\* restore of an account that holds it.
Activates(w) ==
    \/ inflight[w].op = "create"
    \/ inflight[w].op = "restore" /\ inflight[w].pk \in {3, 4}

\* C7: of two concurrent requests that each make the same employee_id
\* active on different accounts (create/create, create/restore,
\* restore/restore) at most one commits; a write that comes after the other's
\* commit fails with the IntegrityError of the unique constraint and changes
\* nothing, also when both passed their pre-checks before either wrote; at most
\* one active account holds the identifier in every state.
C7_StoreResolvesRace ==
    [][/\ \A w \in Workers :
            (/\ inflight[w].pc = "write"
             /\ inflight'[w].pc = "done"
             /\ Activates(w)
             /\ \E i \in objects(users) :
                    /\ users[i].employee_id = ConcEmployeeId
                    /\ i # inflight[w].pk)
            => (inflight'[w].exc = "IntegrityError" /\ users' = users)
       /\ \A a \in Workers : \A b \in Workers :
            (/\ a # b
             /\ Activates(a)' /\ Activates(b)'
             /\ inflight'[a].pk # inflight'[b].pk)
            => ~(Committed(a)' /\ Committed(b)')
       /\ Cardinality({i \in objects(users') :
                          users'[i].employee_id = ConcEmployeeId}) <= 1
      ]_vars

\* Two creates both passed the duplicate pre-check; one committed and the
\* other was refused by the store.
C7_Witness ==
    \E a \in Workers : \E b \in Workers :
        /\ a # b
        /\ inflight[a].op = "create" /\ Committed(a)
        /\ inflight[b].op = "create"
        /\ inflight[b].pc = "done"
        /\ inflight[b].exc = "IntegrityError"

\* C5 (as claimed): a restore of a soft-deleted account whose employee_id
\* is held by an active account is answered as a conflict (400 or 409) and
\* leaves both accounts as they were.
C5_RestoreConflict ==
    (/\ result.op = "restore"
     /\ result.pk \in DOMAIN users
     /\ users[result.pk].deleted_at # NULL
     /\ \E b \in DOMAIN users :
            /\ users[b].deleted_at = NULL
            /\ users[b].employee_id = users[result.pk].employee_id)
    => result.status \in {HTTP_400_BAD_REQUEST, 409}

\* C6: when a soft-deleted account holds employee_id X and no active account
\* does, creating an account with X is answered 201 and afterwards the old
\* account and the new, active one both exist with employee_id X.
C6_ReuseAfterDelete ==
    \A actor \in Ids, e \in EmployeeIds, n \in Usernames, p \in Passwords, adm \in BOOLEAN :
        \A a \in DOMAIN users :
            (/\ has_permission(users, actor)
             /\ nextId <= MaxId
             /\ users[a].deleted_at # NULL
             /\ users[a].employee_id = e
             /\ \A b \in DOMAIN users :
                    users[b].deleted_at = NULL => users[b].employee_id # e)
            => LET r == create(users, nextId, now, actor, e, n, p, adm) IN
               /\ r.status = HTTP_201_CREATED
               /\ r.users[a] = users[a]
               /\ nextId \in DOMAIN r.users
               /\ r.users[nextId].employee_id = e
               /\ r.users[nextId].deleted_at = NULL

\* An account was created with the employee_id of a soft-deleted account.
C6_Witness ==
    /\ result.op = "create"
    /\ result.status = HTTP_201_CREATED
    /\ \E a \in DOMAIN users :
        /\ a # result.pk
        /\ users[a].deleted_at # NULL
        /\ users[a].employee_id = users[result.pk].employee_id
        /\ users[result.pk].deleted_at = NULL

\* C8: a delete whose target is the acting user is rejected with
\* CannotDeleteSelf (400 CANNOT_DELETE_SELF at the endpoint) and changes
\* nothing, whatever the admin status of the account and of the others.
C8_CannotDeleteSelf ==
    [][LET r == result' IN
       /\ (r.op = "delete_user" /\ r.actor = r.pk)
          => (r.exc = "CannotDeleteSelfError" /\ users' = users)
       /\ (r.op = "destroy" /\ r.actor = r.pk)
          => /\ r.status = HTTP_400_BAD_REQUEST
             /\ r.error_code = "CANNOT_DELETE_SELF"
             /\ users' = users
      ]_vars

\* A non-admin's self-delete was rejected while another admin exists.
C8_Witness ==
    /\ result.op = "delete_user"
    /\ result.actor = result.pk
    /\ result.exc = "CannotDeleteSelfError"
    /\ ~users[result.pk].is_admin
    /\ ActiveAdmins(users) # {}

\* The failure count the cache holds for an identifier, 0 when none.
Attempts(c, employee_id, t) ==
    IF get_cache_key(employee_id) \in DOMAIN c
       /\ c[get_cache_key(employee_id)].expires > t
    THEN c[get_cache_key(employee_id)].value
    ELSE 0

\* The lockout flag of an identifier is set and has not expired.
Locked(c, employee_id, t) ==
    /\ get_lockout_key(employee_id) \in DOMAIN c
    /\ c[get_lockout_key(employee_id)].expires > t

\* C9 (as claimed): whenever a login request records a failure that brings
\* the count of its identifier to MAX_LOGIN_ATTEMPTS or more, the lockout
\* flag of that identifier is set when the request is answered.
C9_LockAtThreshold ==
    [][(/\ result'.op = "login"
        /\ result.op = "idle"
        /\ Attempts(cache', result'.employee_id, clock)
              > Attempts(cache, result'.employee_id, clock)
        /\ Attempts(cache', result'.employee_id, clock) >= MAX_LOGIN_ATTEMPTS)
       => Locked(cache', result'.employee_id, clock)
      ]_vars

\* C10: while the lockout flag of an identifier is set, a login request for
\* it establishes no session and leaves the cache as it is, whatever the
\* password; with a password submitted it is answered 429 ACCOUNT_LOCKED,
\* also when the password is the right one.
C10_LockedRejected ==
    [][(/\ result'.op = "login"
        /\ result.op = "idle"
        /\ Locked(cache, result'.employee_id, clock))
       => /\ session' = session
          /\ cache' = cache
          /\ result'.status # HTTP_200_OK
          /\ result'.password # ""
                => /\ result'.status = HTTP_429_TOO_MANY_REQUESTS
                   /\ result'.error_code = "ACCOUNT_LOCKED"
      ]_vars

\* The locked admin submitted the right password and was answered 429.
C10_Witness ==
    /\ result.op = "login"
    /\ result.employee_id = "9999"
    /\ result.password = "test1234"
    /\ result.status = HTTP_429_TOO_MANY_REQUESTS
    /\ Locked(cache, "9999", clock)
    /\ session = NULL

\* C11 (as claimed): when the lockout flag of an identifier expires, the
\* identifier is Clear: it is not locked and no failure count is left, so
\* the next failed login counts as the first one and does not lock it.
C11_ClearAfterExpiry ==
    [][\A e \in LoginIds :
          (/\ clock' > clock
           /\ Locked(cache, e, clock)
           /\ ~Locked(cache', e, clock'))
          => Attempts(cache', e, clock') = 0
      ]_vars

\* C12: a successful login for an identifier leaves it with no lockout flag
\* and a failure count of zero and establishes the session; a login request
\* raises the count by one at most, and an identifier is locked only while
\* its count is MAX_LOGIN_ATTEMPTS or more, so fewer failures than that since
\* the last successful login never lock it.
C12_SuccessClears ==
    [][/\ (result'.op = "login" /\ result'.status = HTTP_200_OK)
          => /\ ~Locked(cache', result'.employee_id, clock')
             /\ Attempts(cache', result'.employee_id, clock') = 0
             /\ get_cache_key(result'.employee_id) \notin DOMAIN cache'
             /\ get_lockout_key(result'.employee_id) \notin DOMAIN cache'
             /\ session' \in DOMAIN users
             /\ users[session'].employee_id = result'.employee_id
       /\ \A e \in LoginIds :
            /\ Attempts(cache', e, clock') <= Attempts(cache, e, clock) + 1
            /\ Locked(cache', e, clock')
                  => Attempts(cache', e, clock') >= MAX_LOGIN_ATTEMPTS
      ]_vars

\* The admin logged in while another identifier still carries failures.
C12_Witness ==
    /\ result.op = "login"
    /\ result.status = HTTP_200_OK
    /\ session = 1
    /\ Attempts(cache, "9999", clock) = 0
    /\ Attempts(cache, "1001", clock) > 0

\* C13: a login request whose password matches a soft-deleted or disabled
\* account, and no active enabled account of that identifier, establishes no
\* session; it is answered as a failure (401, or 429 while the identifier is
\* locked) and, when not locked, raises the failure count by one. A session
\* is only ever established for an active, enabled account.
C13_NoSessionForDeletedOrInactive ==
    [][(result'.op = "login" /\ result.op = "idle")
       => /\ (\E i \in DOMAIN users :
                 /\ users[i].employee_id = result'.employee_id
                 /\ users[i].password = make_password(result'.password)
                 /\ (users[i].deleted_at # NULL \/ ~users[i].is_active)
                 /\ ~\E j \in DOMAIN users :
                        /\ users[j].employee_id = result'.employee_id
                        /\ users[j].deleted_at = NULL
                        /\ users[j].is_active)
             => /\ session' = session
                /\ result'.status \in {HTTP_401_UNAUTHORIZED, HTTP_429_TOO_MANY_REQUESTS}
                /\ ~Locked(cache, result'.employee_id, clock)
                      => /\ result'.status = HTTP_401_UNAUTHORIZED
                         /\ Attempts(cache', result'.employee_id, clock)
                               = Attempts(cache, result'.employee_id, clock) + 1
          /\ session' # session
             => /\ session' \in DOMAIN users
                /\ users[session'].deleted_at = NULL
                /\ users[session'].is_active
      ]_vars

\* The right password of the soft-deleted account was answered 401 and
\* counted, and nobody is logged in.
C13_Witness ==
    /\ result.op = "login"
    /\ result.employee_id = "1001"
    /\ result.password = "test1234"
    /\ result.error_code \in {"ACCOUNT_DELETED", "ACCOUNT_INACTIVE"}
    /\ result.status = HTTP_401_UNAUTHORIZED
    /\ Attempts(cache, "1001", clock) > 0
    /\ session = NULL

\* The store u without the accounts of an identifier.
WithoutIdentifier(u, employee_id) ==
    [i \in {j \in DOMAIN u : u[j].employee_id # employee_id} |-> u[i]]

\* C14: for the store and the store without the accounts of identifier I, a
\* login request for I with a secret that matches no account of I gets the
\* same response (status, error code) and leaves the same counter, lockout
\* flag and session, in every reachable state of the lockout cache; equal
\* caches giving equal responses and equal next caches, the same sequence of
\* wrong-secret requests yields the same sequence of responses.
C14_WrongSecretIndistinguishable ==
    \A e \in LoginIds \ {""} : \A p \in LoginPasswords \ {""} :
        (\A i \in DOMAIN users :
            users[i].employee_id = e => users[i].password # make_password(p))
        => \A a \in authenticate(users, e, p) :
           \A b \in authenticate(WithoutIdentifier(users, e), e, p) :
              post(users, cache, clock, session, e, p, a)
                 = post(WithoutIdentifier(users, e), cache, clock, session, e, p, b)

\* A wrong secret for the existing admin account was answered with
\* INVALID_CREDENTIALS and counted.
C14_Witness ==
    /\ result.op = "login"
    /\ result.employee_id = "9999"
    /\ result.password = "bad"
    /\ result.status = HTTP_401_UNAUTHORIZED
    /\ result.error_code = "INVALID_CREDENTIALS"
    /\ Attempts(cache, "9999", clock) > 1

\* C15: while the account whose id a session stores is soft-deleted (by
\* delete, bulk delete or the service, until it is restored), resolving the
\* session yields no user and raises nothing: the request is refused as not
\* logged in, and the account passes no admin permission check.
C15_NoSessionForSoftDeleted ==
    [][/\ (session' \in DOMAIN users' /\ users'[session'].deleted_at # NULL)
          => /\ get_user(users', session') = NULL
             /\ ~has_permission(users', session')
       /\ (/\ result'.op = "me"
           /\ result.op = "idle"
           /\ session \in DOMAIN users
           /\ users[session].deleted_at # NULL)
          => /\ result'.user = NULL
             /\ result'.status = HTTP_403_FORBIDDEN
             /\ result'.exc = "none"
             /\ users' = users
      ]_vars

\* The logged-in account 1001 was soft-deleted and its session then
\* resolved to no user.
C15_Witness ==
    /\ result.op = "me"
    /\ result.user = NULL
    /\ result.status = HTTP_403_FORBIDDEN
    /\ session = 2
    /\ users[2].deleted_at # NULL

\* C16: an update of a soft-deleted account is rejected with
\* CannotUpdateDeleted and changes no field of it, through the update
\* endpoint (400 CANNOT_UPDATE_DELETED) and through UserService.update_user
\* (CannotUpdateDeletedError).
C16_UpdateDeletedRejected ==
    [][(/\ result.op = "idle"
        /\ result'.op \in {"update", "update_user"}
        /\ result'.pk \in DOMAIN users
        /\ users[result'.pk].deleted_at # NULL)
       => /\ users' = users
          /\ result'.op = "update"
             => /\ result'.status = HTTP_400_BAD_REQUEST
                /\ result'.error_code = "CANNOT_UPDATE_DELETED"
          /\ result'.op = "update_user"
             => result'.exc = "CannotUpdateDeletedError"
      ]_vars

\* The changes of d set is_admin or is_active to false.
Demotes(d) ==
    \/ "is_admin" \in d.fields /\ ~d.is_admin
    \/ "is_active" \in d.fields /\ ~d.is_active

\* C17: for the only active admin, the last-admin check rejects an update
\* exactly when its changes set is_admin=false or is_active=false: such an
\* update raises LastAdminError and changes nothing, and an update that
\* changes neither flag (display name, password, identifier) is applied.
C17_LastAdminCheckOnlyOnDemotion ==
    \A pk \in objects(users), d \in ValidatedData :
        (/\ users[pk].is_admin
         /\ ActiveAdmins(users) = {pk})
        => LET r == update_user(users, pk, users[pk], d)
           IN  IF Demotes(d)
               THEN /\ r.exc = "LastAdminError"
                    /\ r.users = users
               ELSE /\ r.exc # "LastAdminError"
                    /\ r.exc = "none" => r.users[pk] = apply_changes(users[pk], d)

\* C18: a soft delete, single (endpoint or service) or bulk, sets deleted_at
\* to the current time and is_active to false on each account it deletes and
\* leaves every other field of it, every other account and the set of rows
\* unchanged; a refused delete changes nothing.
C18_SoftDeleteFrame ==
    [][(/\ result.op = "idle"
        /\ result'.op \in {"destroy", "bulk_delete", "delete_user"})
       => LET targets == IF result'.op = "bulk_delete"
                         THEN result'.ids \cap objects(users)
                         ELSE {result'.pk}
              done == /\ result'.exc = "none"
                      /\ result'.op # "delete_user"
                         => result'.status \in {HTTP_200_OK, HTTP_204_NO_CONTENT}
          IN  /\ DOMAIN users' = DOMAIN users
              /\ \A i \in DOMAIN users :
                    users'[i] = IF done /\ i \in targets
                                THEN [employee_id |-> users[i].employee_id,
                                      username |-> users[i].username,
                                      password |-> users[i].password,
                                      is_admin |-> users[i].is_admin,
                                      is_active |-> FALSE,
                                      created_at |-> users[i].created_at,
                                      deleted_at |-> now]
                                ELSE users[i]
      ]_vars

\* A bulk delete removed an admin, which keeps its is_admin flag, while
\* another account stayed as it was.
C18_Witness ==
    /\ result.op = "bulk_delete"
    /\ result.status = HTTP_200_OK
    /\ \E i \in result.ids \cap DOMAIN users, j \in (DOMAIN users) \ result.ids :
        /\ users[i].deleted_at = now
        /\ users[i].created_at < now
        /\ ~users[i].is_active
        /\ users[i].is_admin
        /\ users[j].deleted_at = NULL

\* C19: restore_user on an id that has no row, or on an account that is not
\* soft-deleted, raises UserNotFoundError and changes no account; after a
\* restore that succeeded, a second restore of the same id is rejected in
\* that way and has no effect.
C19_RestoreNotDeletedRejected ==
    [][(/\ result.op = "idle"
        /\ result'.op = "restore")
       => /\ (\/ result'.pk \notin DOMAIN users
              \/ users[result'.pk].deleted_at = NULL)
             => /\ result'.exc = "UserNotFoundError"
                /\ users' = users
          /\ result'.exc = "none"
             => /\ users[result'.pk].deleted_at # NULL
                /\ users'[result'.pk].deleted_at = NULL
                /\ restore_user(users', result'.pk).exc = "UserNotFoundError"
                /\ restore_user(users', result'.pk).users = users'
      ]_vars

\* A restore of an existing account that is disabled but not soft-deleted
\* was rejected.
C19_Witness ==
    /\ result.op = "restore"
    /\ result.exc = "UserNotFoundError"
    /\ result.pk \in DOMAIN users
    /\ users[result.pk].deleted_at = NULL
    /\ ~users[result.pk].is_active

\* C20: on every lifecycle endpoint (create, update, delete, bulk delete,
\* restore, bulk restore) a business-rule error reaches the caller with its
\* fixed status and never as a server error: an identifier conflict as 400
\* or 409, account-not-found as 404, LastAdminError and CannotDeleteSelf as
\* 400.
C20_ErrorsHaveFixedStatus ==
    [][(/\ result.op = "idle"
        /\ result'.op \in {"create", "update", "destroy", "bulk_delete",
                           "restore", "bulk_restore"})
       => /\ result'.status # HTTP_500_INTERNAL_SERVER_ERROR
          /\ result'.exc = "IntegrityError"
             => result'.status \in {HTTP_400_BAD_REQUEST, 409}
          /\ result'.exc = "UserNotFoundError"
             => result'.status = HTTP_404_NOT_FOUND
          /\ result'.exc \in {"LastAdminError", "CannotDeleteSelfError"}
             => result'.status = HTTP_400_BAD_REQUEST
      ]_vars

\* C21: bulk_delete_users raises LastAdminError exactly when the target ids
\* hold at least one active admin and no active admin exists outside them;
\* a rejected call modifies no account, and an accepted one soft-deletes
\* every target in the same step and nothing else.
C21_BulkDeleteLastAdmin ==
    [][(/\ result.op = "idle"
        /\ result'.op = "bulk_delete"
        /\ result'.ids # {})
       => LET user_ids == result'.ids
              rejected == result'.exc = "LastAdminError"
          IN  /\ rejected <=> /\ user_ids \cap ActiveAdmins(users) # {}
                              /\ ActiveAdmins(users) \ user_ids = {}
              /\ rejected => users' = users
              /\ ~rejected
                 => /\ result'.exc = "none"
                    /\ DOMAIN users' = DOMAIN users
                    /\ \A i \in DOMAIN users :
                        IF i \in user_ids /\ users[i].deleted_at = NULL
                        THEN users'[i] = [users[i] EXCEPT !.deleted_at = now,
                                                          !.is_active = FALSE]
                        ELSE users'[i] = users[i]
      ]_vars

\* A bulk delete naming the only active admin together with another
\* account was rejected, and that other account is still not deleted.
C21_Witness ==
    /\ result.op = "bulk_delete"
    /\ result.exc = "LastAdminError"
    /\ \E i \in result.ids \cap ActiveAdmins(users), j \in result.ids \cap objects(users) :
        /\ ~users[j].is_admin
        /\ ActiveAdmins(users) \subseteq result.ids

\* C22: bulk_restore_users restores exactly the accounts of ids that are
\* soft-deleted and returns how many accounts went from soft-deleted to
\* active; when the restored targets would make an employee_id active twice
\* (with an active account or with each other) the store rejects the call
\* as a uniqueness conflict and every target stays soft-deleted.
C22_BulkRestoreAllOrNothing ==
    [][(/\ result.op = "idle"
        /\ result'.op = "bulk_restore"
        /\ result'.ids # {})
       => LET user_ids == result'.ids
              targets == {i \in DOMAIN users :
                             i \in user_ids /\ users[i].deleted_at # NULL}
              conflict == \E i \in targets, j \in DOMAIN users :
                             /\ j # i
                             /\ users[j].employee_id = users[i].employee_id
                             /\ j \in targets \/ users[j].deleted_at = NULL
              r == bulk_restore_users(users, user_ids)
          IN  /\ users' = r.users
              /\ r.count = Cardinality({i \in DOMAIN users :
                                           /\ users[i].deleted_at # NULL
                                           /\ users'[i].deleted_at = NULL})
              /\ DOMAIN users' = DOMAIN users
              /\ conflict => /\ result'.exc = "IntegrityError"
                             /\ users' = users
              /\ ~conflict
                 => /\ result'.exc = "none"
                    /\ \A i \in DOMAIN users :
                        users'[i] = IF i \in targets
                                    THEN [users[i] EXCEPT !.deleted_at = NULL,
                                                          !.is_active = TRUE]
                                    ELSE users[i]
      ]_vars

\* A bulk restore of two soft-deleted accounts was rejected because the
\* identifier of one is held by an active account; the other, whose
\* identifier is free, stayed soft-deleted as well.
C22_Witness ==
    /\ result.op = "bulk_restore"
    /\ result.exc = "IntegrityError"
    /\ \E i \in result.ids, j \in result.ids, k \in objects(users) :
        /\ i \in DOMAIN users /\ j \in DOMAIN users
        /\ users[i].deleted_at # NULL
        /\ users[j].deleted_at # NULL
        /\ users[k].employee_id = users[i].employee_id
        /\ \A m \in (DOMAIN users) \ {j} : users[m].employee_id # users[j].employee_id

\* C23: permanent_delete_old_users(days) removes exactly the accounts whose
\* deleted_at is set and is at or before now - days and returns their
\* number; it keeps every active account and every account deleted after
\* the threshold unchanged, and a row leaves the store only by this sweep
\* and only from the soft-deleted state.
C23_PurgeOnlyOldDeleted ==
    [][/\ \A days \in Days :
            LET r == permanent_delete_old_users(users, days, now)
                purged == (DOMAIN users) \ DOMAIN r.users
            IN  /\ purged = {i \in DOMAIN users :
                                /\ users[i].deleted_at # NULL
                                /\ users[i].deleted_at <= now - days}
                /\ r.count = Cardinality(purged)
                /\ \A i \in DOMAIN r.users : r.users[i] = users[i]
       /\ (result.op = "idle" /\ result'.op = "cleanup_deleted_users")
          => \E days \in Days :
                users' = permanent_delete_old_users(users, days, now).users
       /\ \A i \in (DOMAIN users) \ DOMAIN users' :
            /\ result'.op = "cleanup_deleted_users"
            /\ users[i].deleted_at # NULL
      ]_vars

\* The sweep removed a soft-deleted account and kept the active ones.
C23_Witness ==
    /\ result.op = "cleanup_deleted_users"
    /\ \E i \in 1..(nextId - 1) : i \notin DOMAIN users
    /\ objects(users) # {}
    /\ DOMAIN users = objects(users)

\* C24: the lookup by identifier among the active rows (User.objects) gives
\* at most one account and never a soft-deleted one; the lookup among all
\* rows (User.all_objects) gives every account of that identifier, active
\* and soft-deleted, each once, ordered newest-created first.
C24_LookupByIdentifier ==
    \A employee_id \in EmployeeIds :
        LET active == {i \in objects(users) : users[i].employee_id = employee_id}
            any == {i \in all_objects(users) : users[i].employee_id = employee_id}
        IN  /\ Cardinality(active) <= 1
            /\ \A i \in active : users[i].deleted_at = NULL
            /\ any = {i \in DOMAIN users : users[i].employee_id = employee_id}
            /\ active \subseteq any
            /\ \A q \in order_by_created_at_desc(users, any) :
                /\ Len(q) = Cardinality(any)
                /\ {q[n] : n \in 1..Len(q)} = any
                /\ \A m, n \in 1..Len(q) :
                    m < n => users[q[m]].created_at >= users[q[n]].created_at
            /\ first(users, any) = {q[1] : q \in {s \in order_by_created_at_desc(users, any) : s # <<>>}}

\* An identifier was reused: 9999 is held by a soft-deleted account and by
\* a newer active one.
C24_Witness ==
    \E i \in objects(users), j \in DOMAIN users :
        /\ users[j].deleted_at # NULL
        /\ users[i].employee_id = users[j].employee_id
        /\ users[i].created_at > users[j].created_at

\* C25: every lifecycle mutation that succeeds (create, update, soft
\* delete, restore, bulk delete, bulk restore) emits an audit event that
\* carries the action, the acting user and the id of each account it
\* changed.
C25_MutationsAudited ==
    [][(/\ result.op = "idle"
        /\ result'.op \in {"create", "update", "destroy", "restore",
                           "bulk_delete", "bulk_restore"}
        /\ result'.exc = "none")
       => \A i \in DOMAIN users' :
            (i \notin DOMAIN users \/ users'[i] # users[i])
            => \E e \in audit_log' :
                /\ e.object_id = i
                /\ e.action \in {"CREATE", "UPDATE", "DELETE"}
                /\ e.user = users[result'.actor].employee_id
      ]_vars

\* C26: no operation of the user-management API runs for a requester who is
\* not authenticated or whose account is not an admin: every endpoint step
\* has an authenticated admin as requester, and a request of anyone else is
\* refused with 403 and changes no account.
C26_AdminOnly ==
    [][/\ (/\ result.op = "idle"
           /\ result'.op \in {"create", "update", "destroy", "bulk_delete",
                              "restore", "bulk_restore"})
          => /\ result'.actor \in DOMAIN users
             /\ users[result'.actor].deleted_at = NULL
             /\ users[result'.actor].is_active
             /\ users[result'.actor].is_admin
       /\ (result.op = "idle" /\ result'.op = "permission_denied")
          => /\ result'.status = HTTP_403_FORBIDDEN
             /\ users' = users
       /\ \A actor \in Ids :
            (\/ actor \notin DOMAIN users
             \/ users[actor].deleted_at # NULL
             \/ ~users[actor].is_active
             \/ ~users[actor].is_admin)
            => ~has_permission(users, actor)
      ]_vars

\* A logged-in account that is not an admin was refused with 403.
C26_Witness ==
    /\ result.op = "permission_denied"
    /\ result.status = HTTP_403_FORBIDDEN
    /\ result.actor \in objects(users)
    /\ users[result.actor].is_active
    /\ ~users[result.actor].is_admin

\* The keyword arguments of a create_user call besides employee_id,
\* username and password: is_admin is passed or left out (its value is then
\* never read).
CreateKwargs ==
    {d \in [fields : SUBSET {"is_admin"}, is_admin : BOOLEAN] :
        "is_admin" \notin d.fields => d.is_admin}

\* C27: create_user stores the given employee_id and username, makes the
\* account active (is_active true, deleted_at NULL) and an admin only when
\* is_admin=true is passed, false when it is left out; other accounts are
\* untouched, and an empty employee_id is rejected and creates nothing.
C27_CreateUserDefaults ==
    \A e \in EmployeeIds \cup {""}, n \in Usernames, p \in Passwords, d \in CreateKwargs :
        LET r == create_user(users, nextId, now, e, n, p, get(d, "is_admin", FALSE))
        IN  /\ e = "" => /\ r.exc = "ValueError"
                         /\ r.users = users
            /\ e # "" => r.exc \in {"none", "IntegrityError"}
            /\ r.exc # "none" => r.users = users
            /\ r.exc = "none"
               => /\ DOMAIN r.users = (DOMAIN users) \cup {nextId}
                  /\ \A i \in DOMAIN users : r.users[i] = users[i]
                  /\ r.users[nextId].employee_id = e
                  /\ r.users[nextId].username = n
                  /\ check_password(r.users[nextId], p)
                  /\ r.users[nextId].is_active
                  /\ r.users[nextId].deleted_at = NULL
                  /\ r.users[nextId].created_at = now
                  /\ r.users[nextId].is_admin
                     <=> ("is_admin" \in d.fields /\ d.is_admin)

\* The endpoint created the account 1001 with is_admin false: it is
\* active and not an admin.
C27_Witness ==
    /\ result.op = "create"
    /\ result.status = HTTP_201_CREATED
    /\ result.pk \in objects(users)
    /\ users[result.pk].employee_id = "1001"
    /\ users[result.pk].is_active
    /\ ~users[result.pk].is_admin

\* C28: authenticate resolves the identifier to the active account when one
\* holds it, and checks the password against that account only; a
\* soft-deleted account is taken only when no active account holds the
\* identifier, and then one with the latest created_at. The login endpoint
\* therefore answers ACCOUNT_DELETED only when no active account holds the
\* identifier.
C28_ResolutionOrder ==
    (/\ result.op = "authenticate"
     /\ ~result.raises
     /\ result.employee_id # ""
     /\ result.password # "")
    => LET e == result.employee_id
           p == result.password
           active == {i \in DOMAIN users :
                         users[i].employee_id = e /\ users[i].deleted_at = NULL}
           deleted == {i \in DOMAIN users :
                          users[i].employee_id = e /\ users[i].deleted_at # NULL}
           newest == {i \in deleted :
                         \A j \in deleted : users[j].created_at <= users[i].created_at}
       IN  /\ active # {}
              => /\ result.user \in active \cup {NULL}
                 /\ result.user # NULL
                    <=> \E i \in active : check_password(users[i], p)
           /\ active = {}
              => /\ result.user \in newest \cup {NULL}
                 /\ result.user # NULL => check_password(users[result.user], p)
                 /\ result.user = NULL
                    => \A i \in newest : \E j \in newest : ~check_password(users[j], p)
           /\ post(users, cache, clock, session, e, p, result.user).error_code
                 = "ACCOUNT_DELETED"
              => active = {}

\* The password matched a soft-deleted account of the identifier but not
\* the active one, and authenticate returned no user.
C28_Witness ==
    /\ result.op = "authenticate"
    /\ ~result.raises
    /\ result.user = NULL
    /\ \E i \in objects(users), j \in DOMAIN users :
        /\ users[i].employee_id = result.employee_id
        /\ users[j].employee_id = result.employee_id
        /\ users[j].deleted_at # NULL
        /\ users[j].created_at > users[i].created_at
        /\ ~check_password(users[i], result.password)
        /\ check_password(users[j], result.password)

\* C29: authenticate returns the account it resolved whenever the submitted
\* password matches the stored hash of that account, whether the account is
\* enabled, disabled or soft-deleted, and returns no user otherwise; it
\* modifies no account.
C29_NoGateOnFlags ==
    [][(/\ result.op = "idle"
        /\ result'.op = "authenticate"
        /\ ~result'.raises
        /\ result'.employee_id # ""
        /\ result'.password # "")
       => LET e == result'.employee_id
              p == result'.password
              active == {i \in objects(users) : users[i].employee_id = e}
              any == {i \in all_objects(users) : users[i].employee_id = e}
              resolved == IF active # {} THEN first(users, active) ELSE first(users, any)
          IN  /\ users' = users
              /\ result'.user # NULL
                 => /\ result'.user \in resolved
                    /\ check_password(users[result'.user], p)
              /\ result'.user = NULL
                 => \/ resolved = {}
                    \/ \E i \in resolved : ~check_password(users[i], p)
              /\ \A i \in resolved :
                    check_password(users[i], p)
                    => [user |-> i, exc |-> "none"]
                          \in EmployeeIdBackend_authenticate(users, e, p, FALSE)
      ]_vars

\* authenticate returned a soft-deleted account whose password matched.
C29_Witness ==
    /\ result.op = "authenticate"
    /\ result.user \in DOMAIN users
    /\ users[result.user].deleted_at # NULL
    /\ ~users[result.user].is_active
    /\ check_password(users[result.user], result.password)

\* C30: authenticate fails closed: an empty identifier, an empty password,
\* an identifier no account holds and an exception raised by the store
\* lookup all give the same result, no user, and none of them raises to the
\* caller.
C30_FailsClosed ==
    [][(/\ result.op = "idle"
        /\ result'.op = "authenticate")
       => /\ result'.exc = "none"
          /\ users' = users
          /\ (\/ result'.employee_id = ""
              \/ result'.password = ""
              \/ result'.raises
              \/ \A i \in DOMAIN users : users[i].employee_id # result'.employee_id)
             => result'.user = NULL
      ]_vars

\* The store lookup raised during a login whose credentials match an
\* active account, and authenticate returned no user.
C30_Witness ==
    /\ result.op = "authenticate"
    /\ result.raises
    /\ result.user = NULL
    /\ result.exc = "none"
    /\ \E i \in objects(users) :
        /\ users[i].employee_id = result.employee_id
        /\ users[i].is_active
        /\ check_password(users[i], result.password)

\* C31: the lockout state is kept per submitted identifier: a login request
\* for one identifier leaves the failure counter and the lockout flag of
\* every other identifier as they were, and a failure for an identifier is
\* counted and locks at the threshold in the same way whether or not an
\* account holds the identifier.
C31_LockoutPerIdentifier ==
    [][(/\ result.op = "idle"
        /\ result'.op = "login")
       => LET e == result'.employee_id
              p == result'.password
              entry(c, k) == IF k \in DOMAIN c THEN <<c[k]>> ELSE <<>>
          IN  /\ \A J \in LoginIds \ {e} :
                    /\ entry(cache', get_cache_key(J)) = entry(cache, get_cache_key(J))
                    /\ entry(cache', get_lockout_key(J)) = entry(cache, get_lockout_key(J))
              /\ (/\ e # "" /\ p # ""
                  /\ ~Locked(cache, e, clock)
                  /\ authenticate(users, e, p) = {NULL})
                 => /\ Attempts(cache', e, clock) = Attempts(cache, e, clock) + 1
                    /\ Locked(cache', e, clock)
                       <=> Attempts(cache', e, clock) >= MAX_LOGIN_ATTEMPTS
      ]_vars

\* The identifier 1001, which no account holds, is locked, while 9999 has
\* failures of its own counted and is not locked.
C31_Witness ==
    /\ \A i \in DOMAIN users : users[i].employee_id # "1001"
    /\ Locked(cache, "1001", clock)
    /\ Attempts(cache, "1001", clock) >= MAX_LOGIN_ATTEMPTS
    /\ Attempts(cache, "9999", clock) \in 1..(MAX_LOGIN_ATTEMPTS - 1)
    /\ ~Locked(cache, "9999", clock)

LockEntry(c, employee_id) ==
    IF get_lockout_key(employee_id) \in DOMAIN c
    THEN c[get_lockout_key(employee_id)]
    ELSE [value |-> FALSE, expires |-> 0]

\* C33: a login request for a locked identifier is answered without a
\* session and leaves the whole cache as it is, the failure count and the
\* expiry of the lockout flag included; a lockout flag is written only by a
\* request that counts a failure for its identifier, and then expires
\* LOCKOUT_DURATION after that request; so no flag ever outlives the
\* LOCKOUT_DURATION that follows the failure that set it.
C33_LockoutNotRenewed ==
    [][/\ (/\ result'.op = "login"
           /\ result.op = "idle"
           /\ Locked(cache, result'.employee_id, clock))
          => /\ cache' = cache
             /\ session' = session
             /\ result'.status # HTTP_200_OK
       /\ \A e \in LoginIds :
             (/\ LockEntry(cache', e).value
              /\ LockEntry(cache', e) # LockEntry(cache, e))
             => /\ result.op = "idle"
                /\ result'.op = "login"
                /\ result'.employee_id = e
                /\ ~Locked(cache, e, clock)
                /\ Attempts(cache', e, clock) = Attempts(cache, e, clock) + 1
                /\ LockEntry(cache', e).expires = clock + LOCKOUT_DURATION
       /\ \A e \in LoginIds :
             Locked(cache', e, clock')
             => LockEntry(cache', e).expires <= clock' + LOCKOUT_DURATION
      ]_vars

\* Part of the way through the lockout of the admin, the right password was
\* answered 429 and the flag still expires when it was set to.
C33_Witness ==
    /\ result.op = "login"
    /\ result.employee_id = "9999"
    /\ result.password = "test1234"
    /\ result.status = HTTP_429_TOO_MANY_REQUESTS
    /\ Locked(cache, "9999", clock)
    /\ LockEntry(cache, "9999").expires < clock + LOCKOUT_DURATION
    /\ Attempts(cache, "9999", clock) = MAX_LOGIN_ATTEMPTS

\* The operations of the user-management API.
ApiOps == {"create", "update", "destroy", "bulk_delete", "restore", "bulk_restore"}

\* C34 (as claimed): no request of the user-management API soft-deletes the
\* account of the user who sends it, a bulk delete whose ids contain the
\* acting user's id included.
C34_NoSelfDelete ==
    [][(/\ result.op = "idle"
        /\ result'.op \in ApiOps
        /\ result'.actor \in DOMAIN users
        /\ users[result'.actor].deleted_at = NULL)
       => users'[result'.actor].deleted_at = NULL
      ]_vars

\* C35 (as claimed): in every state the service and API operations reach, an
\* account whose deleted_at is set has is_active false.
C35_DeletedIsDisabled ==
    \A i \in DOMAIN users : users[i].deleted_at # NULL => ~users[i].is_active

\* C36: when delete_user has soft-deleted an account, the store differs from
\* the one before in that account's deleted_at and is_active only; when
\* restore_user is called right after it, the restore succeeds and the store
\* is the one from before the delete except that the account has is_active
\* true: employee_id, is_admin, password hash and username are those from
\* before, deleted_at is NULL again, also when the account was disabled
\* before it was deleted, and no other row differs.
C36_DeleteRestoreRoundTrip ==
    /\ (result.op = "delete_user" /\ result.exc = "none")
       => users = [result.before EXCEPT ![result.pk].is_active = FALSE,
                                        ![result.pk].deleted_at = now]
    /\ result.op = "restore_user"
       => /\ result.exc = "none"
          /\ result.before[result.pk].deleted_at = NULL
          /\ users[result.pk].deleted_at = NULL
          /\ users[result.pk].is_active
          /\ users = [result.before EXCEPT ![result.pk].is_active = TRUE]

\* An account that was disabled before it was deleted has been deleted and
\* restored.
C36_Witness ==
    /\ result.op = "restore_user"
    /\ result.exc = "none"
    /\ ~result.before[result.pk].is_active
    /\ users[result.pk].is_active
    /\ users[result.pk].deleted_at = NULL

\* C37: bulk_delete_users either raises LastAdminError and changes nothing,
\* or changes exactly the accounts of user_ids that exist and are not yet
\* soft-deleted (each gets deleted_at now and is_active false, its other
\* columns stay) and returns their number; every other row is as before: an
\* id without a row is ignored, and an account of user_ids that was already
\* soft-deleted keeps the deleted_at it had.
C37_BulkDeleteFrame ==
    result.op = "bulk_delete_users"
    => LET before == result.before
           targets == {i \in DOMAIN before :
                          i \in result.ids /\ before[i].deleted_at = NULL}
       IN  /\ DOMAIN users = DOMAIN before
           /\ result.exc \in {"none", "LastAdminError"}
           /\ result.exc = "LastAdminError" => users = before
           /\ result.exc = "none"
              => /\ result.count = Cardinality(targets)
                 /\ \A i \in DOMAIN before :
                       users[i] = IF i \in targets
                                  THEN [before[i] EXCEPT !.deleted_at = now,
                                                         !.is_active = FALSE]
                                  ELSE before[i]

\* A bulk delete whose ids held an account to delete, an account soft-deleted
\* earlier and an id without a row returned 1, and the account deleted
\* earlier has the deleted_at it had.
C37_Witness ==
    /\ result.op = "bulk_delete_users"
    /\ result.exc = "none"
    /\ result.count = 1
    /\ \E i \in result.ids : i \notin DOMAIN result.before
    /\ \E i \in result.ids \cap DOMAIN result.before :
          /\ result.before[i].deleted_at = NULL
          /\ users[i].deleted_at = now
    /\ \E i \in result.ids \cap DOMAIN result.before :
          /\ result.before[i].deleted_at # NULL
          /\ result.before[i].deleted_at < now
          /\ users[i].deleted_at = result.before[i].deleted_at

\* C38: a run of the cleanup command with --dry-run leaves the store as it
\* found it and reports the number of accounts that the run without
\* --dry-run, with the same --days on that store, removes and reports; the
\* run without --dry-run removes exactly the accounts soft-deleted at or
\* before the threshold.
C38_DryRunReportsRealCount ==
    result.op = "cleanup_deleted_users"
    => LET real == handle(result.before, result.days, FALSE, now)
           removed == (DOMAIN result.before) \ (DOMAIN real.users)
       IN  /\ result.exc = "none"
           /\ real.count = Cardinality(removed)
           /\ result.count = real.count
           /\ result.dry_run => users = result.before
           /\ ~result.dry_run => users = real.users

\* A dry run on a store with one account past the threshold and one
\* soft-deleted account not yet past it reported 1 and removed nothing.
C38_Witness ==
    /\ result.op = "cleanup_deleted_users"
    /\ result.dry_run
    /\ result.count = 1
    /\ users = result.before
    /\ Cardinality({i \in DOMAIN users : users[i].deleted_at # NULL}) = 2
====
